---- MODULE Spec2Model ----
(***************************************************************************)
(* A model of az-vm-pool.py: the naming scheme of a VM pool and the        *)
(* pool-level commands (create-pool, delete-pool) as sequences of calls    *)
(* to the cloud control plane (APPLICATION.execute) and to the local and   *)
(* remote shell (subprocess.call).                                         *)
(*                                                                         *)
(* Strings are sequences of one-character strings, so that formatting and  *)
(* parsing are computed as the code computes them.  A Python call that can *)
(* raise returns a record [raised, val]: raised = "" on a normal return.   *)
(***************************************************************************)
EXTENDS Integers, Sequences, FiniteSets, TLC

(* ----------------------------- bounds ---------------------------------- *)
\* longest pool name (args.resource_group) of the naming specification
MaxNameLen == 3
\* largest index given to name_from_number in the naming specification
MaxIndex == 11
\* VM numbers that may already be in use when next_vm_name is called
MaxVmNumber == 3

(* ------------------------ Python values -------------------------------- *)
Return(v) == [raised |-> "", val |-> v]
Raise(e) == [raised |-> e, val |-> 0]

DigitChars == <<"0", "1", "2", "3", "4", "5", "6", "7", "8", "9">>

IsDigit(c) == \E d \in 1..10 : DigitChars[d] = c

DigitValue(c) == (CHOOSE d \in 1..10 : DigitChars[d] = c) - 1

\* str(n) of a non-negative int, as "{0}".format(n) writes it
RECURSIVE FormatNat(_)
FormatNat(n) ==
    IF n < 10 THEN <<DigitChars[n + 1]>>
    ELSE FormatNat(n \div 10) \o <<DigitChars[(n % 10) + 1]>>

\* "{0}".format(n) of an int
FormatInt(n) == IF n < 0 THEN <<"-">> \o FormatNat(0 - n) ELSE FormatNat(n)

\* int(s) of a string with no sign and no blank: ValueError unless all digits
RECURSIVE DigitsValue(_)
DigitsValue(s) ==
    IF s = <<>> THEN 0
    ELSE 10 * DigitsValue(SubSeq(s, 1, Len(s) - 1)) + DigitValue(s[Len(s)])

ParseInt(s) ==
    IF s = <<>> \/ \E k \in 1..Len(s) : ~IsDigit(s[k])
    THEN Raise("ValueError")
    ELSE Return(DigitsValue(s))

\* s.split("-")
RECURSIVE Split(_)
Split(s) ==
    IF \A k \in 1..Len(s) : s[k] # "-" THEN <<s>>
    ELSE LET k == CHOOSE j \in 1..Len(s) :
                      s[j] = "-" /\ \A h \in 1..(j - 1) : s[h] # "-"
         IN <<SubSeq(s, 1, k - 1)>> \o Split(SubSeq(s, k + 1, Len(s)))

\* sorted(list of ints)
Sorted(s) == SortSeq(s, LAMBDA a, b : a < b)

\* list.index(x), 0-based, of an x that is in the list
ListIndex(s, x) == (CHOOSE k \in 1..Len(s) :
                        s[k] = x /\ \A h \in 1..(k - 1) : s[h] # x) - 1

(* ------------------------- naming scheme ------------------------------- *)
\* number_from_name: "stem, number = vm_name.split('-')" unpacks exactly two
\* parts and raises ValueError otherwise
number_from_name(vm_name) ==
    LET parts == Split(vm_name)
    IN IF Len(parts) # 2 THEN Raise("ValueError") ELSE ParseInt(parts[2])

name_from_number(number, resource_group) ==
    resource_group \o <<"-">> \o FormatInt(number)

\* the module defines no vm_number_from_name: evaluating the name raises
vm_number_from_name(vm_name) == Raise("NameError")

\* the for loop of next_vm_name over the sorted numbers, from position k
RECURSIVE next_vm_name_loop(_, _, _)
next_vm_name_loop(vm_numbers, k, resource_group) ==
    IF k > Len(vm_numbers)
    THEN Return(name_from_number(Len(vm_numbers) + 1, resource_group))
    ELSE IF ListIndex(vm_numbers, vm_numbers[k]) # vm_numbers[k]
         THEN Return(name_from_number(vm_numbers[k] - 1, resource_group))
         ELSE next_vm_name_loop(vm_numbers, k + 1, resource_group)

next_vm_name(vms, resource_group) ==
    LET numbers == [k \in 1..Len(vms) |-> vm_number_from_name(vms[k].name)]
    IN IF \E k \in 1..Len(vms) : numbers[k].raised # ""
       THEN Raise(numbers[CHOOSE k \in 1..Len(vms) :
                       numbers[k].raised # ""
                       /\ \A h \in 1..(k - 1) : numbers[h].raised = ""].raised)
       ELSE next_vm_name_loop(Sorted([k \in 1..Len(vms) |-> numbers[k].val]),
                              1, resource_group)

(* ---------------------- naming specification --------------------------- *)
\* nm: the call of the naming scheme under evaluation in SpecNaming:
\*   op      "" before the call, then the function applied
\*   pool    args.resource_group
\*   number  the index given to name_from_number
\*   numbers the VM numbers already in the pool when next_vm_name is called
\*   out     what the call returned or raised
VARIABLE nm

\* cloud: what the control plane holds for the pool's resource group
\* local: the operator's machine (key files, cached host identities)
\* pc, args, i, vms, num_vms, result: the running command's position, its
\*   parsed arguments, its loop index, its list `vms`, its count `num_vms`
\*   (`num_existing_vms` in create_pool) and its list `result`
\* log: the calls the running command has issued, in order
\* cloud0: what the control plane held when the running command started
\* runs: commands started so far
VARIABLES cloud, local, pc, args, i, vms, num_vms, result, log, cloud0, runs

\* remote: what each VM of the pool holds: its directories and the scripts
\*   running detached on it (read and written by setup-pool, deploy-task,
\*   start-task and kill-task only)
\* success: the local `success` of the per-VM step of these commands
\* power: the power state the control plane reports for each VM (read by
\*   start-all and stop-all only)
\* sas: one call of pool_data_container_sas: the clock it reads, the
\*   validity it is given, the request it makes and the expiry it asks for,
\*   the path and the content of the file it writes, and the blob that
\*   upload_secret leaves in the secrets container; and over the calls:
\*   the tokens issued (none is ever withdrawn by the storage service on
\*   its own), the files of the local secrets directory and the blobs of
\*   the secrets container, each a pair of name and content
VARIABLES remote, success, power, sas

\* what create-pool and delete-pool neither read nor write
other == <<remote, success, power, sas>>

vars == <<nm, cloud, local, pc, args, i, vms, num_vms, result, log, cloud0,
          runs, other>>

orch == <<cloud, local, pc, args, i, vms, num_vms, result, log, cloud0, runs,
          other>>

\* what no step of a running command changes
kept == <<nm, cloud0, runs, other>>

NameChars == {"a", "-"}

PoolNames == UNION {[1..n -> NameChars] : n \in 1..MaxNameLen}

\* the numbers of a finite set, smallest first
RECURSIVE Ascending(_)
Ascending(numbers) ==
    IF numbers = {} THEN <<>>
    ELSE LET least == CHOOSE n \in numbers : \A m \in numbers : n <= m
         IN <<least>> \o Ascending(numbers \ {least})

\* the `vms` list of a pool that holds the VMs of the given numbers
VmsOfNumbers(numbers, resource_group) ==
    LET ordered == Ascending(numbers)
    IN [k \in 1..Len(ordered) |->
            [name |-> name_from_number(ordered[k], resource_group)]]

NmRoundTrip ==
    /\ nm.op = ""
    /\ nm' = [nm EXCEPT !.op = "number_from_name",
                        !.out = number_from_name(
                                    name_from_number(nm.number, nm.pool))]
    /\ UNCHANGED orch

NmNextVmName ==
    /\ nm.op = ""
    /\ nm' = [nm EXCEPT !.op = "next_vm_name",
                        !.out = next_vm_name(
                                    VmsOfNumbers(nm.numbers, nm.pool), nm.pool)]
    /\ UNCHANGED orch

NmIdle == [op |-> "idle", pool |-> <<>>, number |-> 0, numbers |-> {},
           out |-> Return(0)]

(* ------------------------- the pool's state ---------------------------- *)
\* most VMs a create-pool run is asked for (args.num_vms)
MaxVms == 2
\* most commands run one after the other on the pool
MaxRuns == 2

\* args.resource_group, the same in every run
resource_group == <<"p">>

vm_os_disk_name(vm_name) == vm_name \o <<"_", "o", "s", "_", "d", "i", "s", "k">>

\* the blob name delete_vm_os_disk_blob gives to "storage blob delete"
vhd_blob_name(blob_name) == blob_name \o <<".", "v", "h", "d">>

\* the VM names create_pool can give: range(0, args.num_vms)
PoolVmNames == {name_from_number(n, resource_group) : n \in 0..(MaxVms - 1)}

\* no resource group: the pool is Absent
AbsentCloud ==
    [group |-> FALSE, account |-> FALSE, containers |-> {}, vnet |-> FALSE,
     ips |-> {}, nics |-> {}, vms |-> {}, pending |-> {}, blobs |-> {},
     keyblobs |-> {}]

\* a pool left Empty by an earlier create-pool and delete-pool, with blobs
\* of the given names left in the OS-disk container
EmptyCloud(blobs) ==
    [group |-> TRUE, account |-> TRUE,
     containers |-> {"vhds", "data", "sshkeys"}, vnet |-> TRUE,
     ips |-> {}, nics |-> {}, vms |-> {}, pending |-> {}, blobs |-> blobs,
     keyblobs |-> {"private", "public"}]

\* "vm list": the VMs of the resource group, in the order of their numbers
get_vms ==
    LET numbers == Ascending({n \in 0..(MaxVms - 1) :
                        name_from_number(n, resource_group) \in cloud.vms})
    IN [k \in 1..Len(numbers) |->
            [name |-> name_from_number(numbers[k], resource_group)]]

\* a call is issued: APPLICATION.execute or subprocess.call
Issue(op, name, arg) ==
    log' = Append(log, [op |-> op, name |-> name, arg |-> arg])

\* the call raises: nothing in the module catches it, the process ends
Raises ==
    /\ pc' = "raised"
    /\ UNCHANGED <<kept, num_vms, cloud, local, args, i, vms, result>>

NoWaitOpt == IF args.no_wait THEN "--no-wait" ELSE ""

Commands == {"create-pool", "delete-pool"}

\* argparse's value of an option that was not given (num_vms: None), and a
\* local count that is not set yet
NotGiven == 0 - 1

\* resp before get_input has been called
NotAsked == "not asked"

\* main: parse the command line and dispatch
main ==
    /\ pc \in {"idle", "done", "exit", "raised"}
    /\ runs < MaxRuns
    /\ \E command \in Commands, n \in 0..MaxVms, force \in BOOLEAN,
          location \in {"None", "westeurope"}, no_wait \in BOOLEAN :
          \* options the command does not read are taken as not given:
          \* delete_pool reads none of them (and main rejects --no-wait for
          \* it), create_pool reads force and location only when the
          \* resource group does not exist
          /\ command = "delete-pool" => n = 0 /\ ~no_wait
          /\ command = "delete-pool" \/ cloud.group =>
                 ~force /\ location = "None"
          /\ args' = [command |-> command,
                      num_vms |-> IF command = "create-pool" THEN n
                                  ELSE NotGiven,
                      force |-> force, location |-> location,
                      no_wait |-> no_wait, resp |-> NotAsked]
          /\ pc' = IF command = "create-pool" THEN "cp_group_show"
                   ELSE "dp_get_vms"
    /\ runs' = runs + 1
    /\ i' = 0
    /\ vms' = <<>>
    /\ num_vms' = NotGiven
    /\ result' = <<>>
    /\ log' = <<>>
    /\ cloud0' = cloud
    /\ UNCHANGED <<nm, cloud, local, other>>

(* ----------------------------- create_pool ----------------------------- *)
\* where create_pool goes after create_virtual_network and after each
\* create_vm: the list comprehension over range(0, args.num_vms)
create_pool_after_vm(next_number) ==
    IF next_number < args.num_vms THEN "cv_ip_show" ELSE "cp_refresh"

\* create_pool_group_show with "args.force" alone as the test for creating
\* the resource group
create_pool_group_show_force_only ==
    /\ pc = "cp_group_show"
    /\ Issue("group show", <<>>, "")
    /\ \/ /\ cloud.group
          /\ pc' = "cp_get_vms"
          /\ UNCHANGED <<kept, num_vms, cloud, local, args, i, vms, result>>
       \/ /\ ~cloud.group
          /\ args.force
          /\ pc' = "cp_group_create"
          /\ UNCHANGED <<kept, num_vms, cloud, local, args, i, vms, result>>
       \/ /\ ~cloud.group
          /\ ~args.force
          /\ pc' = "exit"
          /\ UNCHANGED <<kept, num_vms, cloud, local, args, i, vms, result>>
       \/ Raises

\* resource_group_exists, and the branch taken on its answer
create_pool_group_show ==
    /\ pc = "cp_group_show"
    /\ Issue("group show", <<>>, "")
    /\ \/ /\ cloud.group
          /\ pc' = "cp_get_vms"
          /\ UNCHANGED <<kept, num_vms, cloud, local, args, i, vms, result>>
       \/ /\ ~cloud.group
          /\ args.force /\ args.location # "None"
          /\ pc' = "cp_group_create"
          /\ UNCHANGED <<kept, num_vms, cloud, local, args, i, vms, result>>
       \/ /\ ~cloud.group
          /\ ~(args.force /\ args.location # "None")
          /\ pc' = "exit"
          /\ UNCHANGED <<kept, num_vms, cloud, local, args, i, vms, result>>
       \/ Raises

create_pool_group_create ==
    /\ pc = "cp_group_create"
    /\ Issue("group create", <<>>, "")
    /\ \/ /\ cloud' = [cloud EXCEPT !.group = TRUE]
          /\ pc' = "cp_get_vms"
          /\ UNCHANGED <<kept, num_vms, local, args, i, vms, result>>
       \/ Raises

\* create_pool_get_vms with the pool created whether VMs exist or not
create_pool_get_vms_unchecked ==
    /\ pc = "cp_get_vms"
    /\ Issue("vm list", <<>>, "")
    /\ \/ /\ vms' = get_vms
          /\ num_vms' = Len(get_vms)
          /\ pc' = "cp_storage_account"
          /\ UNCHANGED <<kept, cloud, local, args, i, result>>
       \/ Raises

\* vms = get_vms(args) and the check for an existing pool
create_pool_get_vms ==
    /\ pc = "cp_get_vms"
    /\ Issue("vm list", <<>>, "")
    /\ \/ /\ vms' = get_vms
          /\ num_vms' = Len(get_vms)
          /\ pc' = IF Len(get_vms) > 0 THEN "done" ELSE "cp_storage_account"
          /\ UNCHANGED <<kept, cloud, local, args, i, result>>
       \/ Raises

create_pool_storage_account ==
    /\ pc = "cp_storage_account"
    /\ Issue("storage account create", <<>>, "")
    /\ \/ /\ cloud' = [cloud EXCEPT !.account = TRUE]
          /\ pc' = "cp_gen_ssh_keys"
          /\ UNCHANGED <<kept, num_vms, local, args, i, vms, result>>
       \/ Raises

\* gen_ssh_keys: ssh-keygen returns 0 and the key files are there, or it
\* returns another status, which is logged as a warning. The call is made
\* whether the key files exist or not; where they exist ssh-keygen asks on
\* the terminal whether to overwrite them, and returns 0 with a new pair
\* written over them when the answer is yes
create_pool_gen_ssh_keys ==
    /\ pc = "cp_gen_ssh_keys"
    /\ pc' = "cp_ssh_key_container"
    /\ \/ /\ Issue("ssh-keygen", <<>>, "ok")
          /\ local' = [local EXCEPT !.keys = TRUE]
       \/ /\ Issue("ssh-keygen", <<>>, "failed")
          /\ local' = local
    /\ UNCHANGED <<kept, num_vms, cloud, args, i, vms, result>>

\* upload_ssh_keys: create_pool_ssh_key_container
upload_ssh_keys_container ==
    /\ pc = "cp_ssh_key_container"
    /\ Issue("storage container create", <<>>, "sshkeys")
    /\ \/ /\ cloud' = [cloud EXCEPT !.containers = @ \cup {"sshkeys"}]
          /\ pc' = "cp_upload_private"
          /\ UNCHANGED <<kept, num_vms, local, args, i, vms, result>>
       \/ Raises

\* upload_blob of one key file: the container is there (it was created just
\* before), the upload raises when the local file is missing
upload_ssh_keys_blob(at, then, which) ==
    /\ pc = at
    /\ Issue("storage blob upload", <<>>, which)
    /\ \/ /\ local.keys
          /\ cloud' = [cloud EXCEPT !.keyblobs = @ \cup {which}]
          /\ pc' = then
          /\ UNCHANGED <<kept, num_vms, local, args, i, vms, result>>
       \/ Raises

upload_ssh_keys_private ==
    upload_ssh_keys_blob("cp_upload_private", "cp_upload_public", "private")

upload_ssh_keys_public ==
    upload_ssh_keys_blob("cp_upload_public", "cp_data_container", "public")

\* create_pool_data_container with the VMs created right after it and the
\* virtual network left out
create_pool_data_container_no_vnet ==
    /\ pc = "cp_data_container"
    /\ Issue("storage container create", <<>>, "data")
    /\ \/ /\ cloud' = [cloud EXCEPT !.containers = @ \cup {"data"}]
          /\ i' = 0
          /\ pc' = create_pool_after_vm(0)
          /\ UNCHANGED <<kept, num_vms, local, args, vms, result>>
       \/ Raises

create_pool_data_container ==
    /\ pc = "cp_data_container"
    /\ Issue("storage container create", <<>>, "data")
    /\ \/ /\ cloud' = [cloud EXCEPT !.containers = @ \cup {"data"}]
          /\ pc' = "cp_virtual_network"
          /\ UNCHANGED <<kept, num_vms, local, args, i, vms, result>>
       \/ Raises

create_pool_virtual_network ==
    /\ pc = "cp_virtual_network"
    /\ Issue("network vnet create", <<>>, "")
    /\ \/ /\ cloud' = [cloud EXCEPT !.vnet = TRUE]
          /\ i' = 0
          /\ pc' = create_pool_after_vm(0)
          /\ UNCHANGED <<kept, num_vms, local, args, vms, result>>
       \/ Raises

(* ------------------------------ create_vm ------------------------------ *)
\* vm_name, which also names the public IP and the NIC
create_vm_name == name_from_number(i, resource_group)

\* the blob vm_os_disk_blob_exists asks for: "--name={blob_name}"
blob_exists_name(vm_name) == vm_os_disk_name(vm_name)

\* the blob delete_vm_os_disk_blob deletes: "--name={blob_name}.vhd"
blob_delete_name(vm_name) == vhd_blob_name(vm_os_disk_name(vm_name))

\* the blob an unmanaged OS disk created with --os-disk-name occupies
os_disk_blob(vm_name) == vhd_blob_name(vm_os_disk_name(vm_name))

create_vm_public_ip_show ==
    /\ pc = "cv_ip_show"
    /\ Issue("network public-ip show", create_vm_name, "")
    /\ \/ /\ pc' = IF create_vm_name \in cloud.ips THEN "cv_nic_show"
                   ELSE "cv_ip_create"
          /\ UNCHANGED <<kept, num_vms, cloud, local, args, i, vms, result>>
       \/ Raises

create_vm_public_ip_create ==
    /\ pc = "cv_ip_create"
    /\ Issue("network public-ip create", create_vm_name, "")
    /\ \/ /\ cloud' = [cloud EXCEPT !.ips = @ \cup {create_vm_name}]
          /\ pc' = "cv_nic_show"
          /\ UNCHANGED <<kept, num_vms, local, args, i, vms, result>>
       \/ Raises

create_vm_nic_show ==
    /\ pc = "cv_nic_show"
    /\ Issue("network nic show", create_vm_name, "")
    /\ \/ /\ pc' = IF create_vm_name \in cloud.nics THEN "cv_blob_exists"
                   ELSE "cv_nic_create"
          /\ UNCHANGED <<kept, num_vms, cloud, local, args, i, vms, result>>
       \/ Raises

create_vm_nic_create ==
    /\ pc = "cv_nic_create"
    /\ Issue("network nic create", create_vm_name, "")
    /\ \/ /\ cloud' = [cloud EXCEPT !.nics = @ \cup {create_vm_name}]
          /\ pc' = "cv_blob_exists"
          /\ UNCHANGED <<kept, num_vms, local, args, i, vms, result>>
       \/ Raises

create_vm_os_disk_blob_exists ==
    /\ pc = "cv_blob_exists"
    /\ Issue("storage blob exists", blob_exists_name(create_vm_name), "")
    /\ \/ /\ pc' = IF blob_exists_name(create_vm_name) \in cloud.blobs
                   THEN "cv_blob_delete" ELSE "cv_vm_create"
          /\ UNCHANGED <<kept, num_vms, cloud, local, args, i, vms, result>>
       \/ Raises

create_vm_delete_os_disk_blob ==
    /\ pc = "cv_blob_delete"
    /\ Issue("storage blob delete", blob_delete_name(create_vm_name), "")
    /\ \/ /\ cloud' = [cloud EXCEPT
                          !.blobs = @ \ {blob_delete_name(create_vm_name)}]
          /\ pc' = "cv_vm_create"
          /\ UNCHANGED <<kept, num_vms, local, args, i, vms, result>>
       \/ Raises

\* the control plane has created the VM: it is listed, and its OS disk
\* occupies its blob in the OS-disk container
Provisioned(c, vm_name) ==
    [c EXCEPT !.vms = @ \cup {vm_name},
              !.pending = @ \ {vm_name},
              !.containers = @ \cup {"vhds"},
              !.blobs = @ \cup {os_disk_blob(vm_name)}]

\* "vm create" returns when the VM is created; with --no-wait it returns
\* when the control plane has accepted the request, the VM still to come
create_vm_vm_create ==
    /\ pc = "cv_vm_create"
    /\ Issue("vm create", create_vm_name, NoWaitOpt)
    /\ \/ /\ cloud' = IF args.no_wait
                      THEN [cloud EXCEPT !.pending = @ \cup {create_vm_name}]
                      ELSE Provisioned(cloud, create_vm_name)
          /\ result' = Append(result, create_vm_name)
          /\ i' = i + 1
          /\ pc' = create_pool_after_vm(i + 1)
          /\ UNCHANGED <<kept, num_vms, local, args, vms>>
       \/ Raises

\* the control plane completes a creation that was requested with --no-wait.
\* The program sees the VMs through "vm list" only, so the step is taken
\* where a "vm list" is about to be issued.
vm_provisioned ==
    /\ pc \in {"cp_get_vms", "cp_refresh", "dp_get_vms", "dp_refresh"}
    /\ \E vm_name \in cloud.pending : cloud' = Provisioned(cloud, vm_name)
    /\ UNCHANGED <<kept, local, pc, args, i, vms, num_vms, result, log>>

(* ---------------------- create_pool, after the VMs --------------------- *)
\* vms = get_vms(args): the refresh before the host entries are removed
create_pool_refresh ==
    /\ pc = "cp_refresh"
    /\ Issue("vm list", <<>>, "")
    /\ \/ /\ vms' = get_vms
          /\ i' = 1
          /\ pc' = IF Len(get_vms) > 0 THEN "cp_remove_ssh_host" ELSE "done"
          /\ UNCHANGED <<kept, num_vms, cloud, local, args, result>>
       \/ Raises

\* [remove_ssh_host(vm, args) for vm in vms]: ssh-keygen -R, status ignored
create_pool_remove_ssh_host ==
    /\ pc = "cp_remove_ssh_host"
    /\ Issue("ssh-keygen -R", vms[i].name, "")
    /\ local' = [local EXCEPT !.known_hosts = @ \ {vms[i].name}]
    /\ i' = IF i < Len(vms) THEN i + 1 ELSE 1
    /\ pc' = IF i < Len(vms) THEN "cp_remove_ssh_host" ELSE "cp_test_ssh"
    /\ UNCHANGED <<kept, num_vms, cloud, args, vms, result>>

\* [vm_test_ssh(vm, args) for vm in vms]: ssh ... exit, result not used; a
\* connection that succeeds stores the host's identity
create_pool_test_ssh ==
    /\ pc = "cp_test_ssh"
    /\ \/ /\ Issue("ssh", vms[i].name, "ok")
          /\ local' = [local EXCEPT !.known_hosts = @ \cup {vms[i].name}]
       \/ /\ Issue("ssh", vms[i].name, "failed")
          /\ local' = local
    /\ i' = IF i < Len(vms) THEN i + 1 ELSE i
    /\ pc' = IF i < Len(vms) THEN "cp_test_ssh" ELSE "done"
    /\ UNCHANGED <<kept, num_vms, cloud, args, vms, result>>

(* ----------------------------- delete_pool ----------------------------- *)
\* what the operator may type at the prompt of delete_pool
Responses == {"y", "n", "Y", ""}

\* delete_pool_get_vms with the OS-disk container deleted where no VM is
\* listed, and no return there
delete_pool_get_vms_no_return ==
    /\ pc = "dp_get_vms"
    /\ \/ /\ log' = IF Len(get_vms) = 0
                    THEN log \o <<[op |-> "vm list", name |-> <<>>, arg |-> ""],
                                  [op |-> "storage container delete",
                                   name |-> <<>>, arg |-> "vhds"]>>
                    ELSE Append(log, [op |-> "vm list", name |-> <<>>,
                                      arg |-> ""])
          /\ vms' = get_vms
          /\ num_vms' = Len(get_vms)
          /\ pc' = "dp_confirm"
          /\ UNCHANGED <<kept, cloud, local, args, i, result>>
       \/ Issue("vm list", <<>>, "") /\ Raises

\* vms = get_vms(args); "No VMs in pool." and return when there is none
delete_pool_get_vms ==
    /\ pc = "dp_get_vms"
    /\ Issue("vm list", <<>>, "")
    /\ \/ /\ vms' = get_vms
          /\ num_vms' = Len(get_vms)
          /\ pc' = IF Len(get_vms) = 0 THEN "done" ELSE "dp_confirm"
          /\ UNCHANGED <<kept, cloud, local, args, i, result>>
       \/ Raises

\* delete_pool_confirm with every answer but "n" taken as a yes
delete_pool_confirm_unless_n ==
    /\ pc = "dp_confirm"
    /\ \E resp \in Responses :
          /\ args' = [args EXCEPT !.resp = resp]
          /\ pc' = IF resp # "n"
                   THEN (IF Len(vms) > 0 THEN "dv_vm_delete"
                         ELSE "dp_os_container")
                   ELSE "done"
    /\ i' = 1
    /\ UNCHANGED <<kept, num_vms, cloud, local, vms, result, log>>

\* where delete_pool goes once the answer is "y": the list comprehension
\* over vms, then delete_pool_os_container
delete_pool_confirmed == IF Len(vms) > 0 THEN "dv_vm_delete" ELSE "dp_os_container"

\* resp = get_input(...); only "y" goes on to the deletion
delete_pool_confirm ==
    /\ pc = "dp_confirm"
    /\ \E resp \in Responses :
          /\ args' = [args EXCEPT !.resp = resp]
          /\ pc' = IF resp = "y" THEN delete_pool_confirmed ELSE "done"
    /\ i' = 1
    /\ UNCHANGED <<kept, num_vms, cloud, local, vms, result, log>>

delete_vm_vm_delete ==
    /\ pc = "dv_vm_delete"
    /\ Issue("vm delete", vms[i].name, "--yes")
    /\ \/ /\ cloud' = [cloud EXCEPT !.vms = @ \ {vms[i].name}]
          /\ pc' = "dv_nic_delete"
          /\ UNCHANGED <<kept, num_vms, local, args, i, vms, result>>
       \/ Raises

\* delete_vm_nic_delete with the interface left in place
delete_vm_nic_delete_kept ==
    /\ pc = "dv_nic_delete"
    /\ Issue("network nic delete", vms[i].name, "")
    /\ \/ /\ pc' = "dv_ip_delete"
          /\ UNCHANGED <<kept, num_vms, cloud, local, args, i, vms, result>>
       \/ Raises

delete_vm_nic_delete ==
    /\ pc = "dv_nic_delete"
    /\ Issue("network nic delete", vms[i].name, "")
    /\ \/ /\ cloud' = [cloud EXCEPT !.nics = @ \ {vms[i].name}]
          /\ pc' = "dv_ip_delete"
          /\ UNCHANGED <<kept, num_vms, local, args, i, vms, result>>
       \/ Raises

delete_vm_public_ip_delete ==
    /\ pc = "dv_ip_delete"
    /\ Issue("network public-ip delete", vms[i].name, "")
    /\ \/ /\ cloud' = [cloud EXCEPT !.ips = @ \ {vms[i].name}]
          /\ pc' = "dv_blob_delete"
          /\ UNCHANGED <<kept, num_vms, local, args, i, vms, result>>
       \/ Raises

\* delete_vm_os_disk_blob with the blob named as the existence check of
\* create_vm names it
delete_vm_os_disk_blob_as_probed ==
    /\ pc = "dv_blob_delete"
    /\ Issue("storage blob delete", blob_exists_name(vms[i].name), "")
    /\ \/ /\ cloud' = [cloud EXCEPT
                          !.blobs = @ \ {blob_exists_name(vms[i].name)}]
          /\ result' = Append(result, vms[i].name)
          /\ i' = i + 1
          /\ pc' = IF i < Len(vms) THEN "dv_vm_delete" ELSE "dp_os_container"
          /\ UNCHANGED <<kept, num_vms, local, args, vms>>
       \/ Raises

\* delete_vm_os_disk_blob, then delete_vm returns and the comprehension of
\* delete_pool goes to the next VM
delete_vm_os_disk_blob ==
    /\ pc = "dv_blob_delete"
    /\ Issue("storage blob delete", blob_delete_name(vms[i].name), "")
    /\ \/ /\ cloud' = [cloud EXCEPT
                          !.blobs = @ \ {blob_delete_name(vms[i].name)}]
          /\ result' = Append(result, vms[i].name)
          /\ i' = i + 1
          /\ pc' = IF i < Len(vms) THEN "dv_vm_delete" ELSE "dp_os_container"
          /\ UNCHANGED <<kept, num_vms, local, args, vms>>
       \/ Raises

\* delete_pool_os_container: the container goes, with every blob in it
delete_pool_os_container ==
    /\ pc = "dp_os_container"
    /\ Issue("storage container delete", <<>>, "vhds")
    /\ \/ /\ cloud' = [cloud EXCEPT !.containers = @ \ {"vhds"},
                                   !.blobs = {}]
          /\ pc' = "dp_refresh"
          /\ UNCHANGED <<kept, num_vms, local, args, i, vms, result>>
       \/ Raises

delete_pool_refresh ==
    /\ pc = "dp_refresh"
    /\ Issue("vm list", <<>>, "")
    /\ \/ /\ vms' = get_vms
          /\ pc' = "done"
          /\ UNCHANGED <<kept, num_vms, cloud, local, args, i, result>>
       \/ Raises

(* --------------------------- specifications ---------------------------- *)
NoArgs == [command |-> "", num_vms |-> NotGiven, force |-> FALSE,
           location |-> "None", no_wait |-> FALSE, resp |-> NotAsked]

\* the blobs an earlier pool can have left in the OS-disk container for its
\* VMs `stale`: their OS disks ("..._os_disk.vhd"), or blobs that were put
\* there under the disks' bare names ("..._os_disk")
LeftBlobs(stale) ==
    {{os_disk_blob(n) : n \in stale}, {vm_os_disk_name(n) : n \in stale}}

\* the state of the commands that are not run
NoRemote == [n \in {} |-> {}]
\* no request made, no blob in the secrets container
NoSasRequest == [name |-> <<>>, permissions |-> <<>>, https_only |-> FALSE]
NoSasBlob == [container |-> <<>>, name |-> <<>>, content |-> <<>>]
NoSas == [op |-> "idle", now |-> <<0, 0, 0, 0, 0, 0>>, days |-> 0,
          request |-> NoSasRequest, out |-> <<>>, path |-> <<>>,
          file |-> <<>>, blob |-> NoSasBlob, uploaded |-> FALSE,
          issued |-> {}, dir |-> {}, secrets |-> {}]
OtherIdle ==
    /\ remote = NoRemote
    /\ success = FALSE
    /\ power = NoRemote
    /\ sas = NoSas

\* the pool before the first command: Absent, or left Empty by an earlier
\* pool of k VMs, which were probed and have left blobs behind
Init ==
    /\ nm = NmIdle
    /\ \/ /\ cloud = AbsentCloud
          /\ local = [keys |-> FALSE, known_hosts |-> {}]
       \/ \E k \in 0..MaxVms :
             LET stale == {name_from_number(n, resource_group) :
                               n \in 0..(k - 1)}
             IN \E blobs \in LeftBlobs(stale) :
                   /\ cloud = EmptyCloud(blobs)
                   /\ local = [keys |-> TRUE, known_hosts |-> stale]
    /\ pc = "idle"
    /\ args = NoArgs
    /\ i = 0
    /\ vms = <<>>
    /\ num_vms = NotGiven
    /\ result = <<>>
    /\ log = <<>>
    /\ cloud0 = cloud
    /\ runs = 0
    /\ OtherIdle

Next ==
    \/ main
    \/ create_pool_group_show
    \/ create_pool_group_create
    \/ create_pool_get_vms
    \/ create_pool_storage_account
    \/ create_pool_gen_ssh_keys
    \/ upload_ssh_keys_container
    \/ upload_ssh_keys_private
    \/ upload_ssh_keys_public
    \/ create_pool_data_container
    \/ create_pool_virtual_network
    \/ create_vm_public_ip_show
    \/ create_vm_public_ip_create
    \/ create_vm_nic_show
    \/ create_vm_nic_create
    \/ create_vm_os_disk_blob_exists
    \/ create_vm_delete_os_disk_blob
    \/ create_vm_vm_create
    \/ create_pool_refresh
    \/ create_pool_remove_ssh_host
    \/ create_pool_test_ssh
    \/ delete_pool_get_vms
    \/ delete_pool_confirm
    \/ delete_vm_vm_delete
    \/ delete_vm_nic_delete
    \/ delete_vm_public_ip_delete
    \/ delete_vm_os_disk_blob
    \/ delete_pool_os_container
    \/ delete_pool_refresh
    \/ vm_provisioned

Spec == Init /\ [][Next]_vars

\* the naming scheme applied to every pool name, index and set of numbers
InitNaming ==
    /\ nm \in [op : {""}, pool : PoolNames, number : 0..MaxIndex,
               numbers : SUBSET (0..MaxVmNumber), out : {Return(0)}]
    /\ cloud = AbsentCloud
    /\ local = [keys |-> FALSE, known_hosts |-> {}]
    /\ pc = "idle"
    /\ args = NoArgs
    /\ i = 0
    /\ vms = <<>>
    /\ num_vms = NotGiven
    /\ result = <<>>
    /\ log = <<>>
    /\ cloud0 = cloud
    /\ runs = 0
    /\ OtherIdle

NextNaming ==
    \/ NmRoundTrip
    \/ NmNextVmName

SpecNaming == InitNaming /\ [][NextNaming]_vars

\* longest VM name given to number_from_name on its own
MaxVmNameLen == 4

\* the names a resource can bear: letters, '-' and digits
VmNameChars == {"a", "-", "0", "1"}

VmNameTexts == UNION {[1..n -> VmNameChars] : n \in 1..MaxVmNameLen}

\* number_from_name of a name that is given, whatever it was made from
NmNumberFromName ==
    /\ nm.op = ""
    /\ nm' = [nm EXCEPT !.op = "number_from_name of a name",
                        !.out = number_from_name(nm.name)]
    /\ UNCHANGED orch

\* number_from_name applied to every name, for every pool name
InitNames ==
    /\ nm \in [op : {""}, pool : PoolNames, number : {0}, numbers : {{}},
               name : VmNameTexts, out : {Return(0)}]
    /\ cloud = AbsentCloud
    /\ local = [keys |-> FALSE, known_hosts |-> {}]
    /\ pc = "idle"
    /\ args = NoArgs
    /\ i = 0
    /\ vms = <<>>
    /\ num_vms = NotGiven
    /\ result = <<>>
    /\ log = <<>>
    /\ cloud0 = cloud
    /\ runs = 0
    /\ OtherIdle

NextNames == NmNumberFromName

SpecNames == InitNames /\ [][NextNames]_vars

(* ------------------- create_vm, one VM beside another ------------------ *)
\* the resources create_vm reads, creates or deletes for a VM, each by its
\* kind and name: ip_name, nic_name, the blob it asks for, the blob it
\* deletes, the blob of the OS disk, and the VM
create_vm_resources(vm_name) ==
    {<<"public-ip", vm_name>>, <<"nic", vm_name>>,
     <<"blob", blob_exists_name(vm_name)>>,
     <<"blob", blob_delete_name(vm_name)>>,
     <<"blob", os_disk_blob(vm_name)>>, <<"vm", vm_name>>}

\* create_vm with the OS disk of every VM looked up and deleted under the
\* name of the disk of VM 0
create_vm_step_shared_disk(c, vm_name, at, no_wait) ==
    LET shared == os_disk_blob(name_from_number(0, resource_group))
    IN CASE at = "cv_ip_show" ->
              [cloud |-> c,
               pc |-> IF vm_name \in c.ips THEN "cv_nic_show"
                      ELSE "cv_ip_create"]
         [] at = "cv_ip_create" ->
              [cloud |-> [c EXCEPT !.ips = @ \cup {vm_name}],
               pc |-> "cv_nic_show"]
         [] at = "cv_nic_show" ->
              [cloud |-> c,
               pc |-> IF vm_name \in c.nics THEN "cv_blob_exists"
                      ELSE "cv_nic_create"]
         [] at = "cv_nic_create" ->
              [cloud |-> [c EXCEPT !.nics = @ \cup {vm_name}],
               pc |-> "cv_blob_exists"]
         [] at = "cv_blob_exists" ->
              [cloud |-> c,
               pc |-> IF shared \in c.blobs THEN "cv_blob_delete"
                      ELSE "cv_vm_create"]
         [] at = "cv_blob_delete" ->
              [cloud |-> [c EXCEPT !.blobs = @ \ {shared}],
               pc |-> "cv_vm_create"]
         [] at = "cv_vm_create" ->
              [cloud |-> IF no_wait
                         THEN [c EXCEPT !.pending = @ \cup {vm_name}]
                         ELSE Provisioned(c, vm_name),
               pc |-> "returned"]

\* one call of create_vm for the VM, at the position `at`, where the call
\* does not raise: what the control plane holds after the call, and the
\* position create_vm goes on at
create_vm_step(c, vm_name, at, no_wait) ==
    CASE at = "cv_ip_show" ->
           [cloud |-> c,
            pc |-> IF vm_name \in c.ips THEN "cv_nic_show"
                   ELSE "cv_ip_create"]
      [] at = "cv_ip_create" ->
           [cloud |-> [c EXCEPT !.ips = @ \cup {vm_name}],
            pc |-> "cv_nic_show"]
      [] at = "cv_nic_show" ->
           [cloud |-> c,
            pc |-> IF vm_name \in c.nics THEN "cv_blob_exists"
                   ELSE "cv_nic_create"]
      [] at = "cv_nic_create" ->
           [cloud |-> [c EXCEPT !.nics = @ \cup {vm_name}],
            pc |-> "cv_blob_exists"]
      [] at = "cv_blob_exists" ->
           [cloud |-> c,
            pc |-> IF blob_exists_name(vm_name) \in c.blobs
                   THEN "cv_blob_delete" ELSE "cv_vm_create"]
      [] at = "cv_blob_delete" ->
           [cloud |-> [c EXCEPT !.blobs = @ \ {blob_delete_name(vm_name)}],
            pc |-> "cv_vm_create"]
      [] at = "cv_vm_create" ->
           [cloud |-> IF no_wait
                      THEN [c EXCEPT !.pending = @ \cup {vm_name}]
                      ELSE Provisioned(c, vm_name),
            pc |-> "returned"]

\* create_vm for the VM from the position `at` to its return
RECURSIVE create_vm_run(_, _, _, _)
create_vm_run(c, vm_name, at, no_wait) ==
    IF at = "returned" THEN c
    ELSE LET r == create_vm_step(c, vm_name, at, no_wait)
         IN create_vm_run(r.cloud, vm_name, r.pc, no_wait)

\* [create_vm(i, args) for i in range(k, n)]: one VM after the other
RECURSIVE create_vms_in_order(_, _, _, _)
create_vms_in_order(c, k, n, no_wait) ==
    IF k >= n THEN c
    ELSE create_vms_in_order(
             create_vm_run(c, name_from_number(k, resource_group),
                           "cv_ip_show", no_wait),
             k + 1, n, no_wait)

\* the calls of create_vm for the VMs 0..num_vms-1 with their steps in any
\* order: pc gives each VM the position of its create_vm, and one of the
\* VMs whose create_vm has not returned takes its next step
create_vm_beside ==
    /\ \E n \in DOMAIN pc :
          /\ pc[n] # "returned"
          /\ LET r == create_vm_step(
                          cloud, name_from_number(n, resource_group), pc[n],
                          args.no_wait)
             IN /\ cloud' = r.cloud
                /\ pc' = [pc EXCEPT ![n] = r.pc]
    /\ UNCHANGED <<kept, local, args, i, vms, num_vms, result, log>>

\* create_pool has come to its VMs: the pool holds no VM, and public
\* addresses, interfaces and blobs that earlier runs have left
InitBeside ==
    /\ nm = NmIdle
    /\ \E k \in 0..MaxVms :
          LET stale == {name_from_number(n, resource_group) :
                            n \in 0..(k - 1)}
          IN \E blobs \in LeftBlobs(stale), ips \in SUBSET PoolVmNames,
                nics \in SUBSET PoolVmNames :
                cloud = [EmptyCloud(blobs) EXCEPT !.ips = ips, !.nics = nics]
    /\ local = [keys |-> TRUE, known_hosts |-> {}]
    /\ \E n \in 1..MaxVms, no_wait \in BOOLEAN :
          /\ args = [NoArgs EXCEPT !.command = "create-pool",
                                   !.num_vms = n, !.no_wait = no_wait]
          /\ pc = [k \in 0..(n - 1) |-> "cv_ip_show"]
    /\ i = 0
    /\ vms = <<>>
    /\ num_vms = 0
    /\ result = <<>>
    /\ log = <<>>
    /\ cloud0 = cloud
    /\ runs = 1
    /\ OtherIdle

NextBeside == create_vm_beside

SpecBeside == InitBeside /\ [][NextBeside]_vars

(* ---------- setup-pool, deploy-task, start-task, kill-task ------------- *)
\* a remote path, and a word of a command line, is the tuple of its
\* components: setup/run.sh is <<"setup", "run.sh">>
SETUP_DIRECTORY == <<"setup">>
TASK_DIRECTORY == <<"task">>
SETUP_SCRIPT == <<"run.sh">>
TASK_SCRIPT == <<"run.sh">>

\* os.path.join(dest_dir, script)
path_join(a, b) == a \o b

\* the local {pool_directory}/setup and {pool_directory}/task: the paths in
\* them, and the name scp gives to a copy made inside an existing directory
SourceFiles == {<<"run.sh">>}
basename(source_dir) == source_dir

\* what a VM holds after an earlier deployment: both directories, with the
\* entry script and a file of that deployment
DeployedFiles ==
    {d \o f : d \in {SETUP_DIRECTORY, TASK_DIRECTORY},
              f \in {<< >>, <<"run.sh">>, <<"old.dat">>}}

\* the paths at or below directory d
Below(files, d) ==
    {f \in files : Len(f) >= Len(d) /\ SubSeq(f, 1, Len(d)) = d}

\* rm -r d
RmR(files, d) == files \ Below(files, d)

\* scp -r source dest: dest is created as the copy when it does not exist,
\* and receives the copy as dest/basename(source) when it is a directory
ScpR(files, source_dir, dest_dir) ==
    LET into == IF dest_dir \in files
                THEN dest_dir \o basename(source_dir) ELSE dest_dir
    IN files \cup {into} \cup {into \o f : f \in SourceFiles}

\* the script_opt of vm_run_script
script_opt(script, detach) ==
    IF detach THEN <<<<"screen">>, <<"-d">>, <<"-m">>>> \o script ELSE script

remove_dir_script(dest_dir) == <<<<"rm">>, <<"-r">>, dest_dir>>
exec_script(script) == <<<<"chmod">>, <<"+x">>, script>>
kill_script == <<<<"killall">>, <<"screen">>>>

DEFAULT_VM_USER == "vm-admin"

\* the login names of the operator on the workstation
LocalLogins == {DEFAULT_VM_USER, "operator"}

\* "{:s}.{:s}.cloudapp.azure.com".format(vm["name"], vm["location"]), the
\* VMs of the pool being in one location
vm_url(vm) == vm.name \o <<".", "westeurope", ".", "cloudapp.azure.com">>

\* the account a remote command is run in: the user of user@host, and the
\* login name of the local user where the host is given without a user
RemoteUser(user, login) == IF user = "None" THEN login ELSE user

\* vm_run_script: host_opt = "{user}@{host}", with args.vm_user; a path in
\* the script is taken from the home directory of that account
vm_run_script_destination(vm, path) ==
    [user |-> RemoteUser(DEFAULT_VM_USER, local.user), host |-> vm_url(vm),
     path |-> path]

\* vm_upload_dir: dest_opt = "{host}:{dest_dir}", no user given
vm_upload_dir_destination(vm, path) ==
    [user |-> RemoteUser("None", local.user), host |-> vm_url(vm),
     path |-> path]

\* the directory a command uploads, and its entry script on the VM
dest_dir == IF args.command = "setup-pool" THEN SETUP_DIRECTORY
            ELSE TASK_DIRECTORY
setup_script == path_join(SETUP_DIRECTORY, SETUP_SCRIPT)
task_script == path_join(TASK_DIRECTORY, TASK_SCRIPT)

RemoteCommands == {"setup-pool", "deploy-task", "start-task", "kill-task"}

\* most of these commands run one after the other on the VMs
MaxRemoteRuns == 1

\* what a step of these commands leaves alone, besides what it names
rkept == <<nm, cloud, cloud0, local, runs, num_vms, result, power, sas>>

\* the comprehension over vms goes to the next VM, or the command is over
NextVm(first, over) ==
    /\ i' = IF i < Len(vms) THEN i + 1 ELSE 1
    /\ pc' = IF i < Len(vms) THEN first ELSE over

\* main for one of the four commands: --pool-directory is given, --no-wait
\* passes the check of line 115 for setup-pool only
main_remote ==
    /\ pc \in {"idle", "done", "raised"}
    /\ runs < MaxRemoteRuns
    /\ \E command \in RemoteCommands, no_wait \in BOOLEAN :
          /\ no_wait => command = "setup-pool"
          /\ args' = [command |-> command, num_vms |-> NotGiven,
                      force |-> FALSE, location |-> "None",
                      no_wait |-> no_wait, resp |-> NotAsked,
                      pool_directory |-> "pool"]
          /\ pc' = CASE command = "setup-pool" -> "sp_get_vms"
                     [] command = "deploy-task" -> "dt_get_vms"
                     [] command = "start-task" -> "st_get_vms"
                     [] command = "kill-task" -> "kt_get_vms"
    /\ runs' = runs + 1
    /\ i' = 0
    /\ vms' = <<>>
    /\ num_vms' = NotGiven
    /\ result' = <<>>
    /\ log' = <<>>
    /\ cloud0' = cloud
    /\ success' = FALSE
    /\ UNCHANGED <<nm, cloud, local, remote, power, sas>>

\* remote_get_vms with the per-VM steps entered whether VMs exist or not
remote_get_vms_unchecked(at, then) ==
    /\ pc = at
    /\ Issue("vm list", <<>>, "")
    /\ \/ /\ vms' = get_vms
          /\ num_vms' = Len(get_vms)
          /\ i' = 1
          /\ pc' = then
          /\ UNCHANGED <<nm, cloud, cloud0, local, runs, result, power, sas,
                         args, remote, success>>
       \/ Raises

\* vms = get_vms(args) at the head of a command; nothing more with no VM
remote_get_vms(at, then) ==
    /\ pc = at
    /\ Issue("vm list", <<>>, "")
    /\ \/ /\ vms' = get_vms
          /\ num_vms' = Len(get_vms)
          /\ i' = 1
          /\ pc' = IF Len(get_vms) = 0 THEN "done" ELSE then
          /\ UNCHANGED <<nm, cloud, cloud0, local, runs, result, power, sas,
                         args, remote, success>>
       \/ Raises

setup_pool_get_vms == remote_get_vms("sp_get_vms", "ud_rm")

\* deploy_task without its call of kill_task
deploy_task_get_vms_no_kill == remote_get_vms("dt_get_vms", "ud_rm")

deploy_task_get_vms == remote_get_vms("dt_get_vms", "kt_get_vms")
start_task_get_vms == remote_get_vms("st_get_vms", "st_chmod")

\* setup_vm and deploy_task_vm begin with
\* os.path.join(args.pool_directory, ...), which raises a TypeError when the
\* option was not given (None)
source_dir_raises ==
    /\ pc = "ud_rm"
    /\ args.pool_directory = "None"
    /\ pc' = "TypeError"
    /\ UNCHANGED <<rkept, args, i, vms, success, remote, log>>

\* vm_upload_dir: vm_run_script(vm, "rm -r dest_dir"), its result dropped
vm_upload_dir_rm ==
    /\ pc = "ud_rm"
    /\ args.pool_directory # "None"
    /\ Issue("ssh", vms[i].name, script_opt(remove_dir_script(dest_dir), FALSE))
    /\ \/ /\ dest_dir \in remote[vms[i].name].files
          /\ remote' = [remote EXCEPT ![vms[i].name].files = RmR(@, dest_dir)]
       \/ remote' = remote
    /\ pc' = "ud_scp"
    /\ UNCHANGED <<rkept, args, i, vms, success>>

\* where the per-VM step goes after the copy: setup_vm goes on to the entry
\* script, deploy_task_vm is over
after_upload ==
    IF args.command = "setup-pool" THEN "su_chmod"
    ELSE IF i < Len(vms) THEN "ud_rm" ELSE "done"

\* vm_upload_dir: scp -r source_dir host:dest_dir; success = (result == 0).
\* The VM has the one account that create_vm has given it (--admin-username),
\* so that a copy addressed to another account is refused.
vm_upload_dir_scp ==
    /\ pc = "ud_scp"
    /\ Issue("scp", vms[i].name, dest_dir)
    /\ \/ /\ vm_upload_dir_destination(vms[i], dest_dir).user
                 = DEFAULT_VM_USER
          /\ remote' = [remote EXCEPT
                           ![vms[i].name].files = ScpR(@, dest_dir, dest_dir)]
          /\ success' = TRUE
       \/ /\ remote' = remote
          /\ success' = FALSE
    /\ pc' = after_upload
    /\ i' = IF args.command = "setup-pool" THEN i
            ELSE IF i < Len(vms) THEN i + 1 ELSE 1
    /\ UNCHANGED <<rkept, args, vms>>

\* vm_make_exec: chmod +x of the entry script, which must be there
make_exec(at, then, script) ==
    /\ pc = at
    /\ Issue("ssh", vms[i].name, script_opt(exec_script(script), FALSE))
    /\ \/ script \in remote[vms[i].name].files /\ success' = TRUE
       \/ success' = FALSE
    /\ pc' = then
    /\ UNCHANGED <<rkept, args, i, vms, remote>>

\* vm_run_script of the entry script: screen -d -m returns 0 once it has
\* detached, and the script, when it is there, stays running in the screen;
\* without screen the call returns what the script returns
run_script(at, first, script, detach) ==
    /\ pc = at
    /\ Issue("ssh", vms[i].name, script_opt(<<script>>, detach))
    /\ \/ /\ detach \/ script \in remote[vms[i].name].files
          /\ remote' = [remote EXCEPT
                           ![vms[i].name].screens =
                               IF detach /\ script \in remote[vms[i].name].files
                               THEN @ \cup {script} ELSE @]
          /\ success' = TRUE
       \/ /\ remote' = remote
          /\ success' = FALSE
    /\ NextVm(first, "done")
    /\ UNCHANGED <<rkept, args, vms>>

\* setup_vm with a failed chmod of the setup script raised to the caller
setup_vm_make_exec_raising ==
    make_exec("su_chmod", IF success' THEN "su_run" ELSE "raised",
              setup_script)

setup_vm_make_exec == make_exec("su_chmod", "su_run", setup_script)

\* setup_vm with the entry script always detached
setup_vm_run_script_detached ==
    run_script("su_run", "ud_rm", setup_script, TRUE)

\* setup_vm: detach = True if args.no_wait else False
setup_vm_run_script ==
    run_script("su_run", "ud_rm", setup_script, args.no_wait)

start_task_vm_make_exec == make_exec("st_chmod", "st_run", task_script)

\* start_task_vm with the entry script detached in no-wait mode only
start_task_vm_run_script_if_no_wait ==
    run_script("st_run", "st_chmod", task_script, args.no_wait)

\* start_task_vm: detach=True
start_task_vm_run_script ==
    run_script("st_run", "st_chmod", task_script, TRUE)

\* kill_task has its own vms = get_vms(args); the pool does not change
\* while one of these commands runs, so it is the list of its caller
kill_task_get_vms ==
    /\ pc = "kt_get_vms"
    /\ Issue("vm list", <<>>, "")
    /\ \/ /\ vms' = get_vms
          /\ i' = 1
          /\ pc' = IF Len(get_vms) > 0 THEN "kt_kill"
                   ELSE IF args.command = "deploy-task" THEN "ud_rm"
                   ELSE "done"
          /\ num_vms' = IF args.command = "deploy-task" THEN num_vms
                        ELSE Len(get_vms)
          /\ UNCHANGED <<nm, cloud, cloud0, local, runs, result, power, sas,
                         args, remote, success>>
       \/ Raises

\* kill_task_vm with a failed 'killall screen' raised to the caller
kill_task_vm_raising ==
    /\ pc = "kt_kill"
    /\ Issue("ssh", vms[i].name, script_opt(kill_script, FALSE))
    /\ \/ /\ remote[vms[i].name].screens # {}
          /\ remote' = [remote EXCEPT ![vms[i].name].screens = {}]
          /\ success' = TRUE
          /\ NextVm("kt_kill",
                    IF args.command = "deploy-task" THEN "ud_rm" ELSE "done")
       \/ /\ remote' = remote
          /\ success' = FALSE
          /\ pc' = "raised"
          /\ i' = i
    /\ UNCHANGED <<rkept, args, vms>>

\* kill_task_vm with the task directory removed along with the screens
kill_task_vm_rm_task ==
    /\ pc = "kt_kill"
    /\ Issue("ssh", vms[i].name, script_opt(kill_script, FALSE))
    /\ \/ /\ remote' = [remote EXCEPT
                           ![vms[i].name].screens = {},
                           ![vms[i].name].files = RmR(@, TASK_DIRECTORY)]
          /\ success' = TRUE
       \/ /\ remote' = remote
          /\ success' = FALSE
    /\ NextVm("kt_kill",
              IF args.command = "deploy-task" THEN "ud_rm" ELSE "done")
    /\ UNCHANGED <<rkept, args, vms>>

\* kill_task_vm: killall screen, which fails where no screen runs
kill_task_vm ==
    /\ pc = "kt_kill"
    /\ Issue("ssh", vms[i].name, script_opt(kill_script, FALSE))
    /\ \/ /\ remote[vms[i].name].screens # {}
          /\ remote' = [remote EXCEPT ![vms[i].name].screens = {}]
          /\ success' = TRUE
       \/ /\ remote' = remote
          /\ success' = FALSE
    /\ NextVm("kt_kill",
              IF args.command = "deploy-task" THEN "ud_rm" ELSE "done")
    /\ UNCHANGED <<rkept, args, vms>>

\* a pool of k VMs that create-pool has created
PopulatedCloud(k) ==
    LET names == {name_from_number(n, resource_group) : n \in 0..(k - 1)}
    IN [EmptyCloud({os_disk_blob(n) : n \in names}) EXCEPT
           !.vms = names, !.nics = names, !.ips = names]

\* a pool of 0..MaxVms VMs, which are new or have been deployed to before
InitRemote ==
    /\ nm = NmIdle
    /\ \E k \in 0..MaxVms :
          /\ cloud = PopulatedCloud(k)
          /\ \E files \in {{}, DeployedFiles},
                screens \in {{}, {task_script}} :
                remote = [n \in cloud.vms |->
                              [files |-> files, screens |-> screens]]
    /\ \E user \in LocalLogins :
          local = [keys |-> TRUE, known_hosts |-> cloud.vms, user |-> user]
    /\ pc = "idle"
    /\ args = NoArgs
    /\ i = 0
    /\ vms = <<>>
    /\ num_vms = NotGiven
    /\ result = <<>>
    /\ log = <<>>
    /\ cloud0 = cloud
    /\ runs = 0
    /\ success = FALSE
    /\ power = NoRemote
    /\ sas = NoSas

NextRemote ==
    \/ main_remote
    \/ setup_pool_get_vms
    \/ deploy_task_get_vms
    \/ start_task_get_vms
    \/ kill_task_get_vms
    \/ vm_upload_dir_rm
    \/ vm_upload_dir_scp
    \/ setup_vm_make_exec
    \/ setup_vm_run_script
    \/ start_task_vm_make_exec
    \/ start_task_vm_run_script
    \/ kill_task_vm

SpecRemote == InitRemote /\ [][NextRemote]_vars

(* ------------------------- start-all, stop-all ------------------------- *)
PowerStates == {"VM running", "VM deallocated", "VM stopped"}

\* get_vms: "vm list --show-details", which gives each VM its powerState
get_vms_show_details ==
    [k \in DOMAIN get_vms |->
        [name |-> get_vms[k].name, powerState |-> power[get_vms[k].name]]]

\* what a step of start-all and stop-all leaves alone, besides what it names
pkept == <<nm, cloud, cloud0, local, runs, remote, success, sas, args>>

\* main for start-all and stop-all; --no-wait passes the check of line 115
main_power ==
    /\ pc \in {"idle", "done", "raised"}
    /\ runs < MaxRuns
    /\ \E command \in {"start-all", "stop-all"}, no_wait \in BOOLEAN :
          /\ args' = [command |-> command, num_vms |-> NotGiven,
                      force |-> FALSE, location |-> "None",
                      no_wait |-> no_wait, resp |-> NotAsked]
          /\ pc' = IF command = "start-all" THEN "sa_get_vms"
                   ELSE "sd_get_vms"
    /\ runs' = runs + 1
    /\ i' = 0
    /\ vms' = <<>>
    /\ num_vms' = NotGiven
    /\ result' = <<>>
    /\ log' = <<>>
    /\ cloud0' = cloud
    /\ UNCHANGED <<nm, cloud, local, other>>

\* vms = get_vms(args); num_vms = len(vms)
power_get_vms(at, then, over) ==
    /\ pc = at
    /\ Issue("vm list", <<>>, "")
    /\ \/ /\ vms' = get_vms_show_details
          /\ num_vms' = Len(get_vms)
          /\ i' = 1
          /\ pc' = IF Len(get_vms) = 0 THEN over ELSE then
          /\ UNCHANGED <<pkept, power, result>>
       \/ /\ pc' = "raised"
          /\ UNCHANGED <<pkept, power, result, vms, num_vms, i>>

start_all_get_vms == power_get_vms("sa_get_vms", "sa_vm", "sa_refresh")
shutdown_all_get_vms == power_get_vms("sd_get_vms", "sd_vm", "sd_refresh")

\* the comprehension over vms goes to the next VM; i counts the VMs done
PowerNextVm(at, over) ==
    /\ i' = i + 1
    /\ pc' = IF i < Len(vms) THEN at ELSE over

\* the per-VM step: nothing for a VM observed in the target state, the
\* call for any other; with --no-wait the call returns before the VM has
\* changed its state
power_vm(at, over, target, op) ==
    /\ pc = at
    /\ \/ /\ vms[i].powerState = target
          /\ result' = Append(result, "None")
          /\ UNCHANGED <<log, power>>
          /\ PowerNextVm(at, over)
       \/ /\ vms[i].powerState # target
          /\ Issue(op, vms[i].name, NoWaitOpt)
          /\ \/ /\ \/ power' = [power EXCEPT ![vms[i].name] = target]
                   \/ args.no_wait /\ power' = power
                /\ result' = Append(result, op)
                /\ PowerNextVm(at, over)
             \/ /\ pc' = "raised"
                /\ UNCHANGED <<power, result, i>>
    /\ UNCHANGED <<pkept, vms, num_vms>>

\* start_vm with the call skipped for a VM that is not deallocated
start_vm_deallocated_only ==
    \/ /\ pc = "sa_vm"
       /\ vms[i].powerState = "VM stopped"
       /\ result' = Append(result, "None")
       /\ PowerNextVm("sa_vm", "sa_refresh")
       /\ UNCHANGED <<pkept, vms, num_vms, log, power>>
    \/ /\ pc = "sa_vm"
       /\ vms[i].powerState # "VM stopped"
       /\ power_vm("sa_vm", "sa_refresh", "VM running", "vm start")

\* start_vm
start_vm == power_vm("sa_vm", "sa_refresh", "VM running", "vm start")

\* shutdown_vm
shutdown_vm ==
    power_vm("sd_vm", "sd_refresh", "VM deallocated", "vm deallocate")

\* vms = get_vms(args); print_vm_table(vms, args); return(result)
power_refresh(at) ==
    /\ pc = at
    /\ Issue("vm list", <<>>, "")
    /\ \/ /\ vms' = get_vms_show_details
          /\ pc' = "done"
          /\ UNCHANGED <<pkept, power, result, num_vms, i>>
       \/ /\ pc' = "raised"
          /\ UNCHANGED <<pkept, power, result, vms, num_vms, i>>

start_all_refresh == power_refresh("sa_refresh")
shutdown_all_refresh == power_refresh("sd_refresh")

\* a pool of 0..MaxVms VMs, each in one of the power states
InitPower ==
    /\ nm = NmIdle
    /\ \E k \in 0..MaxVms : cloud = PopulatedCloud(k)
    /\ power \in [cloud.vms -> PowerStates]
    /\ local = [keys |-> TRUE, known_hosts |-> cloud.vms]
    /\ pc = "idle"
    /\ args = NoArgs
    /\ i = 0
    /\ vms = <<>>
    /\ num_vms = NotGiven
    /\ result = <<>>
    /\ log = <<>>
    /\ cloud0 = cloud
    /\ runs = 0
    /\ remote = NoRemote
    /\ success = FALSE
    /\ sas = NoSas

NextPower ==
    \/ main_power
    \/ start_all_get_vms
    \/ start_vm
    \/ start_all_refresh
    \/ shutdown_all_get_vms
    \/ shutdown_vm
    \/ shutdown_all_refresh

SpecPower == InitPower /\ [][NextPower]_vars

(* ----------------------------- refresh-sas ----------------------------- *)
DEFAULT_SAS_EXPIRY_DAYS == 14
\* the largest --sas-expiry-days given
MaxSasDays == 14

\* a datetime is <<year, month, day, hour, minute, second>>; its part below
\* the second has no effect on what follows
IsLeap(y) == (y % 4 = 0 /\ y % 100 # 0) \/ y % 400 = 0
DaysInMonth(y, m) ==
    IF m = 2 THEN (IF IsLeap(y) THEN 29 ELSE 28)
    ELSE IF m \in {4, 6, 9, 11} THEN 30 ELSE 31
DaysInYear(y) == IF IsLeap(y) THEN 366 ELSE 365

\* date.toordinal, counted from the first day of 2017
RECURSIVE DaysBeforeYear(_)
DaysBeforeYear(y) ==
    IF y <= 2017 THEN 0 ELSE DaysInYear(y - 1) + DaysBeforeYear(y - 1)
RECURSIVE DaysBeforeMonth(_, _)
DaysBeforeMonth(y, m) ==
    IF m <= 1 THEN 0 ELSE DaysInMonth(y, m - 1) + DaysBeforeMonth(y, m - 1)
toordinal(dt) == DaysBeforeYear(dt[1]) + DaysBeforeMonth(dt[1], dt[2]) + dt[3] - 1

\* date.fromordinal
RECURSIVE YearOfOrdinal(_, _)
YearOfOrdinal(n, y) ==
    IF n < DaysInYear(y) THEN <<y, n>> ELSE YearOfOrdinal(n - DaysInYear(y), y + 1)
RECURSIVE MonthOfOrdinal(_, _, _)
MonthOfOrdinal(n, y, m) ==
    IF n < DaysInMonth(y, m) THEN <<m, n + 1>>
    ELSE MonthOfOrdinal(n - DaysInMonth(y, m), y, m + 1)
fromordinal(n) ==
    LET yn == YearOfOrdinal(n, 2017)
        md == MonthOfOrdinal(yn[2], yn[1], 1)
    IN <<yn[1], md[1], md[2]>>

\* datetime + timedelta with the days left out
plus_no_days(dt, days) == dt

\* datetime + timedelta(days = days)
plus_days(dt, days) ==
    fromordinal(toordinal(dt) + days) \o <<dt[4], dt[5], dt[6]>>

\* '{:0wd}': the decimal digits, zero-filled on the left to the width
RECURSIVE ZeroFill(_, _)
ZeroFill(digits, width) ==
    IF Len(digits) >= width THEN digits ELSE ZeroFill(<<"0">> \o digits, width)

\* '{:%Y-%m-%dT%H:%MZ}'.format(dt)
format_expiry(dt) ==
    ZeroFill(FormatNat(dt[1]), 4) \o <<"-">> \o ZeroFill(FormatNat(dt[2]), 2)
        \o <<"-">> \o ZeroFill(FormatNat(dt[3]), 2) \o <<"T">>
        \o ZeroFill(FormatNat(dt[4]), 2) \o <<":">>
        \o ZeroFill(FormatNat(dt[5]), 2) \o <<"Z">>

\* the values datetime.utcnow() is given: days around the ends of months
\* and years, times around the ends of minutes and days
ClockDates ==
    {<<2017, 1, 1>>, <<2017, 2, 15>>, <<2017, 12, 20>>, <<2019, 12, 31>>,
     <<2020, 2, 20>>}
ClockTimes == {<<0, 0, 0>>, <<0, 0, 59>>, <<12, 30, 30>>, <<23, 59, 59>>}

DEFAULT_VM_SECRETS_DIRECTORY == <<"s", "e", "c", "r", "e", "t", "s">>
DEFAULT_DATA_CONTAINER_NAME == <<"d", "a", "t", "a">>
DEFAULT_VM_SECRETS_CONTAINER_NAME == <<"v", "m", "s", "e", "c", "r", "e", "t", "s">>
DEFAULT_CONTAINER_SAS_PREFIX ==
    <<"s", "a", "s", "_", "s", "t", "o", "r", "a", "g", "e">>
    \o <<"_", "c", "o", "n", "t", "a", "i", "n", "e", "r">>
DEFAULT_POOL_FILE_PREFIX ==
    <<"a", "z", "u", "r", "e", "_", "v", "m", "_", "p", "o", "o", "l">>

pool_data_container_name == DEFAULT_DATA_CONTAINER_NAME
pool_vm_secrets_container_name == DEFAULT_VM_SECRETS_CONTAINER_NAME

\* "{:s}_{:s}_{:s}_{:s}.txt".format(args.pool_file_prefix,
\*     args.resource_group, args.container_sas_prefix, container_name)
container_sas_filename(container_name, pool) ==
    DEFAULT_POOL_FILE_PREFIX \o <<"_">> \o pool \o <<"_">>
        \o DEFAULT_CONTAINER_SAS_PREFIX \o <<"_">> \o container_name
        \o <<".", "t", "x", "t">>

\* os.path.join(args.vm_secrets_directory, file_name): the directory and
\* the name in it
sas_file_path ==
    <<DEFAULT_VM_SECRETS_DIRECTORY,
      container_sas_filename(pool_data_container_name, resource_group)>>

\* a file or blob written under the name beside what was there
Added(entries, name, content) == entries \cup {<<name, content>>}

\* a directory or a container after a file or blob is written under the
\* name: what was there under the name is replaced
Overwritten(entries, name, content) ==
    {e \in entries : e[1] # name} \cup {<<name, content>>}

skept == <<nm, cloud0, local, runs, i, vms, num_vms, result, remote, success,
           power>>

\* main for refresh-sas with --sas-expiry-days (14 when it is not given)
main_sas ==
    /\ pc = "idle"
    /\ sas.op = ""
    /\ args' = [command |-> "refresh-sas", num_vms |-> NotGiven,
                force |-> FALSE, location |-> "None", no_wait |-> FALSE,
                resp |-> NotAsked]
    /\ pc' = "rs_connection_string"
    /\ UNCHANGED <<skept, cloud, log, sas>>

\* pool_storage_account_connection_string
pool_data_container_sas_connection_string ==
    /\ pc = "rs_connection_string"
    /\ Issue("storage account show-connection-string", <<>>, "")
    /\ pc' \in {"rs_generate_sas", "raised"}
    /\ UNCHANGED <<skept, cloud, args, sas>>

\* pool_data_container_sas_generate with the token handed to upload_secret
\* before it is written to the file
pool_data_container_sas_generate_no_write ==
    /\ pc = "rs_generate_sas"
    /\ pc' \in {"rs_container_exists", "raised"}
    /\ LET expiry_datetime == plus_days(sas.now, sas.days)
       IN /\ Issue("storage container generate-sas", <<>>, "data")
          /\ sas' = [sas EXCEPT
                        !.op = "generate-sas",
                        !.request = [name |-> pool_data_container_name,
                                     permissions |-> <<"l", "r", "w", "d">>,
                                     https_only |-> TRUE],
                        !.out = format_expiry(expiry_datetime),
                        !.issued =
                            IF pc' = "raised" THEN @
                            ELSE @ \cup {format_expiry(expiry_datetime)}]
    /\ UNCHANGED <<skept, cloud, args>>

\* pool_data_container_sas_generate with the tokens issued before withdrawn
pool_data_container_sas_generate_revoking ==
    /\ pc = "rs_generate_sas"
    /\ pc' \in {"rs_write", "raised"}
    /\ LET expiry_datetime == plus_days(sas.now, sas.days)
       IN /\ Issue("storage container generate-sas", <<>>, "data")
          /\ sas' = [sas EXCEPT
                        !.op = "generate-sas",
                        !.request = [name |-> pool_data_container_name,
                                     permissions |-> <<"l", "r", "w", "d">>,
                                     https_only |-> TRUE],
                        !.out = format_expiry(expiry_datetime),
                        !.issued =
                            IF pc' = "raised" THEN @
                            ELSE {format_expiry(expiry_datetime)}]
    /\ UNCHANGED <<skept, cloud, args>>

\* expiry_datetime = utcnow() + timedelta(days); "storage container
\* generate-sas --name=... --permissions=lrwd --https-only --expiry=...".
\* The token that comes back is told from others by its expiry.
pool_data_container_sas_generate ==
    /\ pc = "rs_generate_sas"
    /\ pc' \in {"rs_write", "raised"}
    /\ LET expiry_datetime == plus_days(sas.now, sas.days)
       IN /\ Issue("storage container generate-sas", <<>>, "data")
          /\ sas' = [sas EXCEPT
                        !.op = "generate-sas",
                        !.request = [name |-> pool_data_container_name,
                                     permissions |-> <<"l", "r", "w", "d">>,
                                     https_only |-> TRUE],
                        !.out = format_expiry(expiry_datetime),
                        !.issued =
                            IF pc' = "raised" THEN @
                            ELSE @ \cup {format_expiry(expiry_datetime)}]
    /\ UNCHANGED <<skept, cloud, args>>

\* ensure_exists(args.vm_secrets_directory); open(file_path, 'w+') and
\* f.write(result): the file holds the token when the with block is left;
\* open raises where the file cannot be written
pool_data_container_sas_write ==
    /\ pc = "rs_write"
    /\ \/ /\ sas' = [sas EXCEPT
                        !.path = sas_file_path,
                        !.file = sas.out,
                        !.dir = Overwritten(@, sas_file_path[2], sas.out)]
          /\ pc' = "rs_container_exists"
       \/ /\ sas' = sas
          /\ pc' = "raised"
    /\ UNCHANGED <<skept, cloud, args, log>>

\* upload_secret -> upload_blob: pool_container_exists for the secrets
\* container, after the connection string it asks for
upload_secret_container_exists ==
    /\ pc = "rs_container_exists"
    /\ log' = log \o <<[op |-> "storage account show-connection-string",
                        name |-> <<>>, arg |-> ""],
                       [op |-> "storage container exists", name |-> <<>>,
                        arg |-> "vmsecrets"]>>
    /\ pc' \in {IF "vmsecrets" \in cloud.containers THEN "rs_upload"
                ELSE "rs_container_create",
                "raised"}
    /\ UNCHANGED <<skept, cloud, args, sas>>

\* upload_blob: create_pool_container where the container does not exist
upload_secret_container_create ==
    /\ pc = "rs_container_create"
    /\ log' = log \o <<[op |-> "storage account show-connection-string",
                        name |-> <<>>, arg |-> ""],
                       [op |-> "storage container create", name |-> <<>>,
                        arg |-> "vmsecrets"]>>
    /\ \/ /\ cloud' = [cloud EXCEPT !.containers = @ \cup {"vmsecrets"}]
          /\ pc' = "rs_upload"
       \/ /\ cloud' = cloud
          /\ pc' = "raised"
    /\ UNCHANGED <<skept, args, sas>>

\* upload_blob: "storage blob upload --container-name=... --file=file_path
\* --name=blob_name" with upload_secret's file_path and file_name; the
\* blob gets what the file at file_path holds, and the call fails where
\* there is no such file
pool_data_container_sas_upload ==
    /\ pc = "rs_upload"
    /\ LET file_path == sas_file_path
           blob_name == sas_file_path[2]
       IN /\ log' = log \o <<[op |-> "storage account show-connection-string",
                              name |-> <<>>, arg |-> ""],
                             [op |-> "storage blob upload", name |-> <<>>,
                              arg |-> "vmsecrets"]>>
          /\ \/ /\ sas.path = file_path
                /\ sas' = [sas EXCEPT
                              !.blob = [container |->
                                            pool_vm_secrets_container_name,
                                        name |-> blob_name,
                                        content |-> sas.file],
                              !.secrets =
                                  Overwritten(@, blob_name, sas.file),
                              !.uploaded = TRUE]
                /\ pc' = "done"
             \/ /\ sas' = sas
                /\ pc' = "raised"
    /\ UNCHANGED <<skept, cloud, args>>

\* a pool with or without its secrets container, a clock and a validity
InitSas ==
    /\ nm = NmIdle
    /\ \E containers \in {{}, {"vmsecrets"}} :
          cloud = [PopulatedCloud(1) EXCEPT !.containers = @ \cup containers]
    /\ \E d \in ClockDates, t \in ClockTimes, days \in 0..MaxSasDays :
          sas = [NoSas EXCEPT !.op = "", !.now = d \o t, !.days = days]
    /\ local = [keys |-> TRUE, known_hosts |-> cloud.vms]
    /\ pc = "idle"
    /\ args = NoArgs
    /\ i = 0
    /\ vms = <<>>
    /\ num_vms = NotGiven
    /\ result = <<>>
    /\ log = <<>>
    /\ cloud0 = cloud
    /\ runs = 0
    /\ remote = NoRemote
    /\ success = FALSE
    /\ power = NoRemote

NextSas ==
    \/ main_sas
    \/ pool_data_container_sas_connection_string
    \/ pool_data_container_sas_generate
    \/ pool_data_container_sas_write
    \/ upload_secret_container_exists
    \/ upload_secret_container_create
    \/ pool_data_container_sas_upload

SpecSas == InitSas /\ [][NextSas]_vars

\* most refresh-sas commands run one after the other on the pool
MaxSasRuns == 3
\* the validities given to them
SasRunDays == {0, 1, DEFAULT_SAS_EXPIRY_DAYS}
\* the seconds from the start of 2017 to a datetime
SecondsOf(dt) == toordinal(dt) * 86400 + dt[4] * 3600 + dt[5] * 60 + dt[6]
\* the clocks they read, none earlier than the one before
SasRunClocks ==
    {<<2019, 12, 31, 23, 59, 59>>, <<2020, 1, 1, 0, 0, 0>>,
     <<2020, 2, 20, 12, 30, 30>>}

\* main for refresh-sas, run again on the same pool and workstation: the
\* tokens issued, the secrets directory and the secrets container are as
\* the earlier runs have left them
main_sas_again ==
    /\ pc \in {"idle", "done", "raised"}
    /\ runs < MaxSasRuns
    /\ runs' = runs + 1
    /\ args' = [command |-> "refresh-sas", num_vms |-> NotGiven,
                force |-> FALSE, location |-> "None", no_wait |-> FALSE,
                resp |-> NotAsked]
    /\ \E now \in SasRunClocks, days \in SasRunDays :
          /\ runs > 0 => SecondsOf(sas.now) <= SecondsOf(now)
          /\ sas' = [sas EXCEPT !.op = "", !.now = now, !.days = days,
                                !.request = NoSasRequest, !.out = <<>>]
    /\ pc' = "rs_connection_string"
    /\ log' = <<>>
    /\ UNCHANGED <<nm, cloud0, cloud, local, i, vms, num_vms, result, remote,
                   success, power>>

InitSasRuns ==
    /\ nm = NmIdle
    /\ \E containers \in {{}, {"vmsecrets"}} :
          cloud = [PopulatedCloud(1) EXCEPT !.containers = @ \cup containers]
    /\ sas = [NoSas EXCEPT !.op = ""]
    /\ local = [keys |-> TRUE, known_hosts |-> cloud.vms]
    /\ pc = "idle"
    /\ args = NoArgs
    /\ i = 0
    /\ vms = <<>>
    /\ num_vms = NotGiven
    /\ result = <<>>
    /\ log = <<>>
    /\ cloud0 = cloud
    /\ runs = 0
    /\ remote = NoRemote
    /\ success = FALSE
    /\ power = NoRemote

NextSasRuns ==
    \/ main_sas_again
    \/ pool_data_container_sas_connection_string
    \/ pool_data_container_sas_generate
    \/ pool_data_container_sas_write
    \/ upload_secret_container_exists
    \/ upload_secret_container_create
    \/ pool_data_container_sas_upload

SpecSasRuns == InitSasRuns /\ [][NextSasRuns]_vars

(* ----------------------- main: the command line ------------------------ *)
\* the choices of the positional argument 'command'
AllCommands ==
    {"list-sizes", "create-pool", "delete-pool", "show-pool", "setup-pool",
     "start-all", "stop-all", "deploy-task", "start-task", "kill-task",
     "refresh-sas", "get-ssh", "get-secrets", "init-directory"}

\* the commands --no-wait is supported for
NoWaitCommands == {"create-pool", "setup-pool", "start-all", "stop-all"}

\* the conditional required arguments, without the check of --no-wait
parser_error_no_wait_unchecked(a) ==
    IF a.command \in {"create-pool"} /\ a.num_vms = NotGiven
    THEN "error: Number of VMs required"
    ELSE IF a.command \in {"create-pool"} /\ a.vm_size = "None"
    THEN "error: Size of VMs required"
    ELSE IF a.command \in {"setup-pool"} /\ a.pool_directory = "None"
    THEN "error: Pool directory required"
    ELSE IF a.command \in {"start-task"} /\ a.pool_directory = "None"
    THEN "error: Pool directory required"
    ELSE IF a.command \in {"init-directory"} /\ a.pool_directory = "None"
    THEN "error: Pool directory required"
    ELSE ""

\* "Enforce conditional required arguments": the first parser.error that
\* main calls for the parsed arguments, "" when it calls none
parser_error(a) ==
    IF a.command \in {"create-pool"} /\ a.num_vms = NotGiven
    THEN "error: Number of VMs required"
    ELSE IF a.command \in {"create-pool"} /\ a.vm_size = "None"
    THEN "error: Size of VMs required"
    ELSE IF a.command \in {"setup-pool"} /\ a.pool_directory = "None"
    THEN "error: Pool directory required"
    ELSE IF a.command \in {"start-task"} /\ a.pool_directory = "None"
    THEN "error: Pool directory required"
    ELSE IF a.command \in {"init-directory"} /\ a.pool_directory = "None"
    THEN "error: Pool directory required"
    ELSE IF a.command \notin NoWaitCommands /\ a.no_wait
    THEN "error: '--no-wait' not supported"
    ELSE ""

\* the messages of parser.error, which prints the message and exits
ParserErrors ==
    {"error: Number of VMs required", "error: Size of VMs required",
     "error: Pool directory required", "error: '--no-wait' not supported"}

\* the exit status of a process that ends normally
CLEAN_EXIT == 0

\* argparse: parser.error prints the message and exits with status 2
PARSER_ERROR_EXIT == 2

\* the status of a process that ends with an uncaught exception
TRACEBACK_EXIT == 1

\* sys.exit(arg): the exit status of the process; with no argument (None)
\* the status is 0
sys_exit(arg) == IF arg = NotGiven THEN 0 ELSE arg

\* the exit status of the process where the command has ended: the one
\* sys.exit() of the module is the one of create_pool and has no argument
exit_status ==
    CASE pc = "exit" -> sys_exit(NotGiven)
      [] pc \in ParserErrors -> PARSER_ERROR_EXIT
      [] pc \in {"raised", "TypeError"} -> TRACEBACK_EXIT
      [] OTHER -> CLEAN_EXIT

\* the if/elif chain at the end of main: where the command begins
dispatch(command) ==
    CASE command = "show-pool" -> "show_pool"
      [] command = "list-sizes" -> "list_sizes"
      [] command = "create-pool" -> "cp_group_show"
      [] command = "setup-pool" -> "sp_get_vms"
      [] command = "start-all" -> "sa_get_vms"
      [] command = "stop-all" -> "sd_get_vms"
      [] command = "deploy-task" -> "dt_get_vms"
      [] command = "start-task" -> "st_get_vms"
      [] command = "kill-task" -> "kt_get_vms"
      [] command = "delete-pool" -> "dp_get_vms"
      [] command = "refresh-sas" -> "rs_connection_string"
      [] command = "get-ssh" -> "get_ssh"
      [] command = "get-secrets" -> "get_secrets"
      [] command = "init-directory" -> "init_directory"

\* the commands that read --pool-directory, in main or later
PoolDirectoryCommands ==
    {"setup-pool", "deploy-task", "start-task", "init-directory"}

\* main, from parse_args to the dispatch: every command, with the options
\* given or not; an option no line of the command reads is taken as not given
main_args ==
    /\ pc = "idle"
    /\ \E command \in AllCommands, n \in {NotGiven} \cup (0..MaxVms),
          vm_size \in {"None", "Standard_D2_v2"},
          pool_directory \in {"None", "pool"}, no_wait \in BOOLEAN,
          force \in BOOLEAN, location \in {"None", "westeurope"} :
          /\ command # "create-pool" => n = NotGiven /\ vm_size = "None"
          /\ command \notin PoolDirectoryCommands => pool_directory = "None"
          /\ command # "create-pool" \/ cloud.group => ~force
          /\ location # "None" =>
                 \/ command = "list-sizes"
                 \/ command = "create-pool" /\ ~cloud.group
          /\ args' = [command |-> command, num_vms |-> n,
                      vm_size |-> vm_size, pool_directory |-> pool_directory,
                      force |-> force, location |-> location,
                      no_wait |-> no_wait, resp |-> NotAsked]
          /\ pc' = IF parser_error(args') # "" THEN parser_error(args')
                   ELSE dispatch(command)
    /\ runs' = runs + 1
    /\ i' = 0
    /\ vms' = <<>>
    /\ num_vms' = NotGiven
    /\ result' = <<>>
    /\ log' = <<>>
    /\ cloud0' = cloud
    /\ UNCHANGED <<nm, cloud, local, other>>

\* a command that makes the calls one after the other returns after the
\* last, or one of the calls raises
Calls(calls, then) ==
    \/ /\ log' = log \o calls
       /\ then
    \/ /\ \E k \in 1..Len(calls) : log' = log \o SubSeq(calls, 1, k)
       /\ Raises

Call(op, arg) == [op |-> op, name |-> <<>>, arg |-> arg]

\* show_pool: get_vms and print_vm_table
show_pool ==
    /\ pc = "show_pool"
    /\ Calls(<<Call("vm list", "")>>,
             /\ vms' = get_vms
             /\ pc' = "done"
             /\ UNCHANGED <<kept, num_vms, cloud, local, args, i, result>>)

\* list_sizes: the location given, or the one of the resource group, which
\* must exist
list_sizes ==
    /\ pc = "list_sizes"
    /\ LET done == /\ pc' = "done"
                   /\ UNCHANGED <<kept, num_vms, cloud, local, args, i, vms,
                                  result>>
       IN IF args.location # "None"
          THEN Calls(<<Call("vm list-sizes", args.location)>>, done)
          ELSE IF cloud.group
          THEN Calls(<<Call("group show", ""),
                       Call("vm list-sizes", "westeurope")>>, done)
          ELSE Issue("group show", <<>>, "") /\ Raises

\* get_ssh: download_ssh_keys and get_vms; the host entries are then removed
\* and the connections tested as at the end of create_pool
get_ssh ==
    /\ pc = "get_ssh"
    /\ IF {"private", "public"} \subseteq cloud.keyblobs
       THEN Calls(<<Call("storage blob download", "private"),
                    Call("storage blob download", "public"),
                    Call("vm list", "")>>,
                  /\ local' = [local EXCEPT !.keys = TRUE]
                  /\ vms' = get_vms
                  /\ i' = 1
                  /\ pc' = IF Len(get_vms) = 0 THEN "done"
                           ELSE "cp_remove_ssh_host"
                  /\ UNCHANGED <<kept, num_vms, cloud, args, result>>)
       ELSE Issue("storage blob download", <<>>, "private") /\ Raises

\* get_secrets: download_secrets lists the blobs of the secrets container
\* and downloads each
get_secrets ==
    /\ pc = "get_secrets"
    /\ IF "vmsecrets" \in cloud.containers
       THEN Calls(<<Call("storage blob list", "vmsecrets")>>
                     \o IF sas.uploaded
                        THEN <<Call("storage blob download", "vmsecrets")>>
                        ELSE <<>>,
                  /\ pc' = "done"
                  /\ UNCHANGED <<kept, num_vms, cloud, local, args, i, vms,
                                 result>>)
       ELSE Issue("storage blob list", <<>>, "vmsecrets") /\ Raises

\* initialise_pool_directory: directories and copies on the local disk, one
\* of which may fail; no call
initialise_pool_directory ==
    /\ pc = "init_directory"
    /\ pc' \in {"done", "raised"}
    /\ UNCHANGED <<kept, num_vms, cloud, local, args, i, vms, result, log>>

\* a clock, the default validity, and whether the secrets container holds
\* a token of an earlier refresh-sas
ClockSas(uploaded) ==
    [NoSas EXCEPT
        !.op = "", !.now = <<2019, 12, 31, 23, 59, 59>>,
        !.days = DEFAULT_SAS_EXPIRY_DAYS,
        !.blob = IF uploaded
                 THEN [container |-> pool_vm_secrets_container_name,
                       name |-> sas_file_path[2],
                       content |-> format_expiry(<<2019, 12, 31, 0, 0, 0>>)]
                 ELSE NoSasBlob,
        !.issued = IF uploaded
                   THEN {format_expiry(<<2019, 12, 31, 0, 0, 0>>)} ELSE {},
        !.secrets = IF uploaded
                    THEN {<<sas_file_path[2],
                            format_expiry(<<2019, 12, 31, 0, 0, 0>>)>>}
                    ELSE {},
        !.uploaded = uploaded]

\* the pool before the command: Absent, Empty with blobs left behind, or of
\* 1..MaxVms VMs in any power state, new or deployed to before and with or
\* without a refreshed token in the secrets container
InitArgs ==
    /\ nm = NmIdle
    /\ \/ /\ cloud = AbsentCloud
          /\ local = [keys |-> FALSE, known_hosts |-> {}]
          /\ remote = NoRemote
          /\ power = NoRemote
          /\ sas = ClockSas(FALSE)
       \/ /\ \E k \in 1..MaxVms :
                LET stale == {name_from_number(n, resource_group) :
                                  n \in 0..(k - 1)}
                IN \E blobs \in LeftBlobs(stale) : cloud = EmptyCloud(blobs)
          /\ local = [keys |-> TRUE, known_hosts |-> {}]
          /\ remote = NoRemote
          /\ power = NoRemote
          /\ sas = ClockSas(FALSE)
       \/ /\ \E k \in 1..MaxVms, secrets \in BOOLEAN :
                /\ cloud = [PopulatedCloud(k) EXCEPT
                               !.containers =
                                   IF secrets THEN @ \cup {"vmsecrets"} ELSE @]
                /\ sas = ClockSas(secrets)
          /\ \E files \in {{}, DeployedFiles},
                screens \in {{}, {task_script}} :
                remote = [n \in cloud.vms |->
                              [files |-> files, screens |-> screens]]
          /\ power \in [cloud.vms -> PowerStates]
          /\ \E user \in LocalLogins :
                local = [keys |-> TRUE, known_hosts |-> cloud.vms,
                         user |-> user]
    /\ pc = "idle"
    /\ args = NoArgs
    /\ i = 0
    /\ vms = <<>>
    /\ num_vms = NotGiven
    /\ result = <<>>
    /\ log = <<>>
    /\ cloud0 = cloud
    /\ runs = 0
    /\ success = FALSE

NextArgs ==
    \/ main_args
    \/ show_pool
    \/ list_sizes
    \/ get_ssh
    \/ get_secrets
    \/ initialise_pool_directory
    \/ create_pool_group_show
    \/ create_pool_group_create
    \/ create_pool_get_vms
    \/ create_pool_storage_account
    \/ create_pool_gen_ssh_keys
    \/ upload_ssh_keys_container
    \/ upload_ssh_keys_private
    \/ upload_ssh_keys_public
    \/ create_pool_data_container
    \/ create_pool_virtual_network
    \/ create_vm_public_ip_show
    \/ create_vm_public_ip_create
    \/ create_vm_nic_show
    \/ create_vm_nic_create
    \/ create_vm_os_disk_blob_exists
    \/ create_vm_delete_os_disk_blob
    \/ create_vm_vm_create
    \/ create_pool_refresh
    \/ create_pool_remove_ssh_host
    \/ create_pool_test_ssh
    \/ delete_pool_get_vms
    \/ delete_pool_confirm
    \/ delete_vm_vm_delete
    \/ delete_vm_nic_delete
    \/ delete_vm_public_ip_delete
    \/ delete_vm_os_disk_blob
    \/ delete_pool_os_container
    \/ delete_pool_refresh
    \/ vm_provisioned
    \/ setup_pool_get_vms
    \/ deploy_task_get_vms
    \/ start_task_get_vms
    \/ kill_task_get_vms
    \/ source_dir_raises
    \/ vm_upload_dir_rm
    \/ vm_upload_dir_scp
    \/ setup_vm_make_exec
    \/ setup_vm_run_script
    \/ start_task_vm_make_exec
    \/ start_task_vm_run_script
    \/ kill_task_vm
    \/ start_all_get_vms
    \/ start_vm
    \/ start_all_refresh
    \/ shutdown_all_get_vms
    \/ shutdown_vm
    \/ shutdown_all_refresh
    \/ pool_data_container_sas_connection_string
    \/ pool_data_container_sas_generate
    \/ pool_data_container_sas_write
    \/ upload_secret_container_exists
    \/ upload_secret_container_create
    \/ pool_data_container_sas_upload

SpecArgs == InitArgs /\ [][NextArgs]_vars

(* ------------------- get-ssh: the key files and modes ------------------ *)
\* a file mode is its three octal digits, for owner, group and others; a
\* file that is not there has the mode <<>>
NoFile == <<>>

\* the modes a file is created with, by the umasks 022, 002 and 077
CreatedModes == {<<6, 4, 4>>, <<6, 6, 4>>, <<6, 0, 0>>}

\* the modes of key files that earlier commands or the operator have left
LeftModes == {NoFile, <<6, 0, 0>>, <<4, 0, 0>>, <<6, 4, 4>>, <<4, 4, 4>>}

\* whether the mode lets the class (1 owner, 2 group, 3 others) read (4),
\* write (2) or execute (1)
Permits(mode, class, bit) == (mode[class] \div bit) % 2 = 1

\* chmod with a mode that gives every file the mode 400
chmod_400(modes, mode_text, file) == [modes EXCEPT ![file] = <<4, 0, 0>>]

\* chmod mode_text file: the three octal digits of the text become the mode
chmod(modes, mode_text, file) ==
    [modes EXCEPT ![file] = [k \in 1..Len(mode_text) |->
                                DigitValue(mode_text[k])]]

\* main for get-ssh
main_keys ==
    /\ pc = "idle"
    /\ args' = [NoArgs EXCEPT !.command = "get-ssh"]
    /\ pc' = "gk_download_private"
    /\ UNCHANGED <<kept, num_vms, cloud, local, i, vms, result, log>>

\* download_blob of a key file: the blob must be there; a file that is
\* there is written over and keeps its mode, which must let the owner
\* write; a new file gets the mode of creation
download_ssh_keys_blob(at, then, which) ==
    /\ pc = at
    /\ Calls(<<Call("storage account show-connection-string", ""),
               Call("storage blob download", which)>>,
             /\ which \in cloud.keyblobs
             /\ local.modes[which] # NoFile =>
                    Permits(local.modes[which], 1, 2)
             /\ \E created \in CreatedModes :
                    LET modes == [local.modes EXCEPT
                                     ![which] =
                                         IF @ = NoFile THEN created ELSE @]
                    IN local' = [local EXCEPT
                                    !.modes = modes,
                                    !.keys = \A f \in DOMAIN modes :
                                                 modes[f] # NoFile]
             /\ pc' = then
             /\ UNCHANGED <<kept, num_vms, cloud, args, i, vms, result>>)

\* subprocess.call(['chmod', mode, file_path]), its result dropped
download_ssh_keys_chmod(at, then, which, mode_text) ==
    /\ pc = at
    /\ Issue("chmod", <<>>, which)
    /\ local' = [local EXCEPT !.modes = chmod(@, mode_text, which)]
    /\ pc' = then
    /\ UNCHANGED <<kept, num_vms, cloud, args, i, vms, result>>

download_ssh_keys_private ==
    download_ssh_keys_blob("gk_download_private", "gk_chmod_private",
                           "private")

download_ssh_keys_chmod_private ==
    download_ssh_keys_chmod("gk_chmod_private", "gk_download_public",
                            "private", <<"6", "0", "0">>)

download_ssh_keys_public ==
    download_ssh_keys_blob("gk_download_public", "gk_chmod_public", "public")

download_ssh_keys_chmod_public ==
    download_ssh_keys_chmod("gk_chmod_public", "gk_get_vms", "public",
                            <<"6", "4", "4">>)

\* get_ssh after download_ssh_keys: vms = get_vms(args); the host entries
\* are then removed and the connections tested
get_ssh_get_vms ==
    /\ pc = "gk_get_vms"
    /\ Calls(<<Call("vm list", "")>>,
             /\ vms' = get_vms
             /\ i' = 1
             /\ pc' = IF Len(get_vms) = 0 THEN "done"
                      ELSE "cp_remove_ssh_host"
             /\ UNCHANGED <<kept, num_vms, cloud, local, args, result>>)

\* a pool with or without its key blobs, and a workstation with or without
\* key files of earlier commands
InitKeys ==
    /\ nm = NmIdle
    /\ \E k \in 0..MaxVms, keyblobs \in {{}, {"private", "public"}} :
          cloud = [PopulatedCloud(k) EXCEPT !.keyblobs = keyblobs]
    /\ \E private \in LeftModes, public \in LeftModes :
          local = [keys |-> private # NoFile /\ public # NoFile,
                   known_hosts |-> cloud.vms,
                   modes |-> [private |-> private, public |-> public]]
    /\ pc = "idle"
    /\ args = NoArgs
    /\ i = 0
    /\ vms = <<>>
    /\ num_vms = NotGiven
    /\ result = <<>>
    /\ log = <<>>
    /\ cloud0 = cloud
    /\ runs = 0
    /\ OtherIdle

NextKeys ==
    \/ main_keys
    \/ download_ssh_keys_private
    \/ download_ssh_keys_chmod_private
    \/ download_ssh_keys_public
    \/ download_ssh_keys_chmod_public
    \/ get_ssh_get_vms
    \/ create_pool_remove_ssh_host
    \/ create_pool_test_ssh

SpecKeys == InitKeys /\ [][NextKeys]_vars

(* ------------ configure_batch_account: the resource provider ----------- *)
\* most changes that other clients of the subscription make to the
\* registration of the provider
MaxChanges == 2
\* the waits of a polling loop that are counted
MaxPolls == 2

\* registrationState of 'provider show': the four values the function
\* compares with, and the value of a provider that was never registered
RegistrationStates ==
    {"Registered", "Unregistered", "Unregistering", "Registering",
     "NotRegistered"}

BATCH_NAMESPACE == "Microsoft.Batch"

\* what no step of ensure_resource_provider_registered changes
ekept == <<nm, local, args, vms, num_vms, cloud0, runs, remote, power, sas>>

\* resource_provider_registration_state(namespace): what 'provider show'
\* answers at the time of the call
resource_provider_registration_state == cloud.registrationState

\* one test of the state, a call of its own each time it is made: the state
\* is read, compared with the value and the branch taken, or the call raises
state_test(at, value, then, otherwise) ==
    /\ pc = at
    /\ \/ /\ result' = <<resource_provider_registration_state>>
          /\ pc' = IF resource_provider_registration_state = value
                   THEN then ELSE otherwise
       \/ /\ result' = result
          /\ pc' = "raised"
    /\ UNCHANGED <<ekept, cloud, log, i, success>>

\* create_batch_account begins with
\* ensure_resource_provider_registered("Microsoft.Batch")
create_batch_account ==
    /\ pc = "idle"
    /\ runs = 0
    /\ args' = [NoArgs EXCEPT !.command = "create"]
    /\ runs' = 1
    /\ cloud0' = cloud
    /\ pc' = "erp_if_registered"
    /\ UNCHANGED <<nm, cloud, local, i, vms, num_vms, result, log, other>>

\* if(state == "Registered"): return
ensure_resource_provider_registered_if_registered ==
    state_test("erp_if_registered", "Registered",
               "returned", "erp_if_unregistering")

\* if(state == "Unregistering"):
ensure_resource_provider_registered_if_unregistering ==
    state_test("erp_if_unregistering", "Unregistering",
               "erp_while_unregistering", "erp_if_unregistered")

\* while(state == "Unregistering"):
ensure_resource_provider_registered_while_unregistering ==
    state_test("erp_while_unregistering", "Unregistering",
               "erp_sleep_unregistering", "erp_if_unregistered")

\* print(...), time.sleep(5) in the body of either loop
ensure_resource_provider_registered_sleep ==
    /\ pc \in {"erp_sleep_unregistering", "erp_sleep_registering"}
    /\ pc' = IF pc = "erp_sleep_unregistering"
             THEN "erp_while_unregistering" ELSE "erp_while_registering"
    /\ i' = IF i < MaxPolls THEN i + 1 ELSE i
    /\ UNCHANGED <<ekept, cloud, log, result, success>>

\* if(state == "Unregistered"): otherwise the function returns
ensure_resource_provider_registered_if_unregistered ==
    state_test("erp_if_unregistered", "Unregistered",
               "erp_register", "returned")

\* register_resource_provider(namespace): 'provider register' starts the
\* registration of a provider that is not registered and leaves any other
\* as it is
register_resource_provider ==
    /\ pc = "erp_register"
    /\ Issue("provider register", BATCH_NAMESPACE, "")
    /\ \/ /\ cloud' = [cloud EXCEPT !.registrationState =
                          IF @ \in {"Unregistered", "NotRegistered"}
                          THEN "Registering" ELSE @]
          /\ pc' = "erp_while_registering"
       \/ /\ cloud' = cloud
          /\ pc' = "raised"
    /\ UNCHANGED <<ekept, i, result, success>>

\* the second loop waiting until the provider is registered
ensure_resource_provider_registered_until_registered ==
    state_test("erp_while_registering", "Registered",
               "returned", "erp_sleep_registering")

\* while(state == "Registering"): and the return after it
ensure_resource_provider_registered_while_registering ==
    state_test("erp_while_registering", "Registering",
               "erp_sleep_registering", "returned")

\* create_batch_account after the return: 'batch account create', which the
\* control plane carries out for a subscription registered with the provider
create_batch_account_create ==
    /\ pc = "returned"
    /\ Issue("batch account create", BATCH_NAMESPACE, "")
    /\ \/ /\ resource_provider_registration_state = "Registered"
          /\ success' = TRUE
          /\ pc' = "done"
       \/ /\ success' = FALSE
          /\ pc' = "raised"
    /\ UNCHANGED <<ekept, cloud, i, result>>

\* the control plane completes a registration or a deregistration
control_plane_completes ==
    /\ cloud.registrationState \in {"Unregistering", "Registering"}
    /\ cloud' = [cloud EXCEPT !.registrationState =
                    IF @ = "Unregistering" THEN "Unregistered"
                    ELSE "Registered"]
    /\ UNCHANGED <<ekept, pc, i, result, log, success>>

\* another client of the subscription registers or unregisters the provider
control_plane_changes ==
    /\ cloud.changes < MaxChanges
    /\ cloud.registrationState
           \in {"Registered", "Unregistered", "NotRegistered"}
    /\ cloud' = [registrationState |->
                     IF cloud.registrationState = "Registered"
                     THEN "Unregistering" ELSE "Registering",
                 changes |-> cloud.changes + 1]
    /\ UNCHANGED <<ekept, pc, i, result, log, success>>

\* the provider in any registration state
InitProvider ==
    /\ nm = NmIdle
    /\ \E state \in RegistrationStates :
          cloud = [registrationState |-> state, changes |-> 0]
    /\ local = [keys |-> FALSE, known_hosts |-> {}]
    /\ pc = "idle"
    /\ args = NoArgs
    /\ i = 0
    /\ vms = <<>>
    /\ num_vms = NotGiven
    /\ result = <<>>
    /\ log = <<>>
    /\ cloud0 = cloud
    /\ runs = 0
    /\ OtherIdle

\* the steps of the process
ProviderSteps ==
    \/ create_batch_account
    \/ ensure_resource_provider_registered_if_registered
    \/ ensure_resource_provider_registered_if_unregistering
    \/ ensure_resource_provider_registered_while_unregistering
    \/ ensure_resource_provider_registered_sleep
    \/ ensure_resource_provider_registered_if_unregistered
    \/ register_resource_provider
    \/ ensure_resource_provider_registered_while_registering
    \/ create_batch_account_create

NextProvider ==
    \/ ProviderSteps
    \/ control_plane_completes
    \/ control_plane_changes

SpecProvider == InitProvider /\ [][NextProvider]_vars

\* the process is not stopped from outside, and the control plane completes
\* the registration or deregistration it has begun
SpecProviderFair ==
    /\ InitProvider
    /\ [][NextProvider]_vars
    /\ WF_vars(ProviderSteps)
    /\ WF_vars(control_plane_completes)

(* ------------------------------- claims -------------------------------- *)
\* the smallest non-negative integer that is not in the set
SmallestFree(numbers) ==
    CHOOSE n \in 0..Cardinality(numbers) :
        n \notin numbers /\ \A m \in 0..(n - 1) : m \in numbers

\* the running command has issued the call
Issued(op, name) == \E k \in DOMAIN log : log[k].op = op /\ log[k].name = name

\* how many calls of the kind the running command has issued
Count(op) == Cardinality({k \in DOMAIN log : log[k].op = op})

VmName(n) == name_from_number(n, resource_group)

CreateOps ==
    {"group create", "storage account create", "ssh-keygen",
     "storage container create", "storage blob upload", "network vnet create",
     "network public-ip create", "network nic create", "vm create"}

CreateVmOps ==
    {"network public-ip show", "network public-ip create", "network nic show",
     "network nic create", "storage blob exists", "storage blob delete",
     "vm create"}

PerVmDeleteOps ==
    {"vm delete", "network nic delete", "network public-ip delete",
     "storage blob delete"}

DeleteOps == PerVmDeleteOps \cup {"storage container delete"}

BothGiven == args.force /\ args.location # "None"

\* the resources of a pool once the control plane has created every VM it
\* has accepted
Settled(c) ==
    [c EXCEPT !.vms = @ \cup c.pending,
              !.pending = {},
              !.containers = IF c.pending = {} THEN @ ELSE @ \cup {"vhds"},
              !.blobs = @ \cup {os_disk_blob(n) : n \in c.pending}]

\* C1: for every pool name, pool names with a '-' in them included, and every
\* index i >= 0, number_from_name(name_from_number(i)) returns i.
C1_RoundTrip ==
    nm.op = "number_from_name" =>
        nm.out.raised = "" /\ nm.out.val = nm.number

\* C2: for every set of existing VM numbers, next_vm_name returns the name of
\* the smallest non-negative integer that is not in the set.
C2_NextIsSmallestFree ==
    nm.op = "next_vm_name" =>
        /\ nm.out.raised = ""
        /\ nm.out.val = name_from_number(SmallestFree(nm.numbers), nm.pool)

\* C3: once the per-VM pass of create-pool or delete-pool over N VMs has
\* begun, it is over only when the per-VM step has been attempted for every
\* one of the N VMs and the aggregate result has N entries, whatever failed
\* on the way.
C3_FanOutAttemptsAll ==
    /\ (/\ args.command = "create-pool"
        /\ pc \in {"raised", "done"}
        /\ Count("network public-ip show") > 0) =>
           /\ \A n \in 0..(args.num_vms - 1) :
                 Issued("network public-ip show", VmName(n))
           /\ Len(result) = args.num_vms
    /\ (/\ args.command = "delete-pool"
        /\ pc \in {"raised", "dp_os_container"}
        /\ Count("vm delete") > 0) =>
           /\ \A k \in DOMAIN vms : Issued("vm delete", vms[k].name)
           /\ Len(result) = num_vms

\* the step of create-pool's order a call belongs to (0: none of them)
Stage(e) ==
    CASE e.op = "storage account create" -> 1
      [] e.op = "ssh-keygen" -> 2
      [] e.op = "storage container create" /\ e.arg = "sshkeys" -> 3
      [] e.op = "storage blob upload" -> 3
      [] e.op = "storage container create" /\ e.arg = "data" -> 4
      [] e.op = "network vnet create" -> 5
      [] e.op \in CreateVmOps -> 6
      [] e.op = "ssh" -> 7
      [] OTHER -> 0

\* the calls log[k], log[k+1], ... keep create-pool's order after calls of
\* the stages `reached`, `created` of them 'vm create' calls
RECURSIVE C4_InOrder(_, _, _)
C4_InOrder(k, reached, created) ==
    IF k > Len(log) THEN TRUE
    ELSE LET st == Stage(log[k])
         IN /\ st > 0 => \A r \in reached : r <= st
            /\ st >= 6 => (1..5) \subseteq reached
            /\ st = 7 => created = args.num_vms
            /\ C4_InOrder(k + 1,
                          IF st > 0 THEN reached \cup {st} ELSE reached,
                          IF log[k].op = "vm create" THEN created + 1
                                                     ELSE created)

\* C4: in a create-pool run the calls come in the order storage account,
\* key generation, key upload, data container, virtual network, per-VM
\* creation, probes; a per-VM call or a probe is issued only after every
\* earlier step, and a probe only after all args.num_vms VM create calls.
C4_CreatePoolOrder ==
    args.command = "create-pool" => C4_InOrder(1, {}, 0)

C4_Witness ==
    /\ args.command = "create-pool"
    /\ pc = "done"
    /\ args.num_vms = MaxVms
    /\ Count("ssh") = MaxVms

\* C5: when create_vm issues the VM create call, the public address and then
\* the interface of that VM have been ensured, in this order, both exist, and
\* no OS-disk blob of that VM is left in the OS-disk container.
C5_VmCreateOnCleanDisk ==
    [][(pc = "cv_vm_create" /\ Len(log') > Len(log)) =>
          /\ \E a, b \in DOMAIN log :
                /\ a < b
                /\ log[a].op = "network public-ip show"
                /\ log[a].name = create_vm_name
                /\ log[b].op = "network nic show"
                /\ log[b].name = create_vm_name
          /\ create_vm_name \in cloud.ips
          /\ create_vm_name \in cloud.nics
          /\ os_disk_blob(create_vm_name) \notin cloud.blobs]_vars

\* C6: create-pool on an Absent pool without both --force and --location
\* stops at the report that the resource group does not exist, having
\* created nothing; with both it creates the resource group and goes on to
\* list the VMs.
C6_AbsentPoolNeedsForce ==
    args.command = "create-pool" =>
        /\ (~cloud0.group /\ ~BothGiven) =>
              /\ pc \in {"cp_group_show", "exit", "raised"}
              /\ Len(log) >= 1 /\ pc # "raised" => pc = "exit"
              /\ \A k \in DOMAIN log : log[k].op \notin CreateOps
              /\ cloud = cloud0
        /\ (~cloud0.group /\ BothGiven) =>
              /\ pc # "exit"
              /\ Len(log) >= 2 => log[2].op = "group create"
              /\ Len(log) >= 3 => cloud.group /\ log[3].op = "vm list"
        /\ pc = "exit" => ~cloud0.group /\ ~BothGiven

C6_Witness ==
    /\ args.command = "create-pool"
    /\ pc = "exit"
    /\ args.force
    /\ args.location = "None"

\* C7: a create-pool run for n VMs on an empty pool that ends normally has
\* issued n VM create calls, the k-th for the name '{pool}-{k-1}', all
\* distinct, has then removed the cached host identity of each of the n VMs
\* and has probed each of the n VMs once, every removal before every probe.
C7_CreatesAndProbesEach ==
    (args.command = "create-pool" /\ pc = "done" /\ num_vms = 0) =>
        LET creates == {k \in DOMAIN log : log[k].op = "vm create"}
            removes == {k \in DOMAIN log : log[k].op = "ssh-keygen -R"}
            probes == {k \in DOMAIN log : log[k].op = "ssh"}
        IN /\ Cardinality(creates) = args.num_vms
           /\ \A n \in 0..(args.num_vms - 1) :
                 /\ Cardinality({k \in creates :
                        log[k].name = resource_group \o <<"-">> \o FormatNat(n)})
                        = 1
                 /\ \A k \in creates :
                       log[k].name = resource_group \o <<"-">> \o FormatNat(n)
                           => Cardinality({h \in creates : h < k}) = n
                 /\ Cardinality({k \in probes : log[k].name = VmName(n)}) = 1
                 /\ Cardinality({k \in removes : log[k].name = VmName(n)}) = 1
           /\ Cardinality(probes) = args.num_vms
           /\ \A k \in creates, h \in removes : k < h
           /\ \A k \in removes, h \in probes : k < h

\* C8: a confirmed delete-pool has, when its deletions are over, deleted the
\* VM, the interface, the public address and the OS-disk blob of every VM it
\* listed, and the OS-disk container once, after all of these, whatever
\* failed on the way.
C8_DeletePoolDeletesAll ==
    (/\ args.command = "delete-pool"
     /\ args.resp = "y"
     /\ pc \in {"raised", "dp_refresh"}) =>
        /\ \A k \in DOMAIN vms :
              /\ Issued("vm delete", vms[k].name)
              /\ Issued("network nic delete", vms[k].name)
              /\ Issued("network public-ip delete", vms[k].name)
              /\ Issued("storage blob delete", os_disk_blob(vms[k].name))
        /\ Count("storage container delete") = 1
        /\ \A a, b \in DOMAIN log :
              (log[a].op \in PerVmDeleteOps
               /\ log[b].op = "storage container delete") => a < b

\* C9: a delete-pool run that lists no VM issues no per-VM deletion and at
\* most one deletion of the OS-disk container.
C9_EmptyPoolDelete ==
    (args.command = "delete-pool" /\ num_vms = 0) =>
        /\ \A k \in DOMAIN log : log[k].op \notin PerVmDeleteOps
        /\ Count("storage container delete") <= 1

C9_Witness ==
    /\ args.command = "delete-pool"
    /\ num_vms = 0
    /\ pc = "done"
    /\ cloud.blobs # {}

\* C10: delete-pool issues a delete call only after the answer "y"; after
\* any other answer it ends with no delete call issued and the pool's
\* resources as they were when it started.
C10_DeleteNeedsConfirm ==
    args.command = "delete-pool" =>
        /\ (\E k \in DOMAIN log : log[k].op \in DeleteOps) => args.resp = "y"
        /\ args.resp \notin {"y", NotAsked} =>
              /\ pc = "done"
              /\ \A k \in DOMAIN log : log[k].op \notin DeleteOps
              /\ Settled(cloud) = Settled(cloud0)

C10_Witness ==
    /\ args.command = "delete-pool"
    /\ args.resp \in Responses \ {"y", "n"}
    /\ pc = "done"
    /\ cloud.vms # {}

\* the pool as a create-pool that ran to its end leaves it, every accepted VM
\* created: interfaces and public addresses of the VMs only
CompletedPool(c) ==
    /\ c.pending = {}
    /\ c.nics = c.vms
    /\ c.ips = c.vms

IssuedArg(op, arg) == \E k \in DOMAIN log : log[k].op = op /\ log[k].arg = arg

\* C12: create-pool issues no create call for a storage account, a virtual
\* network, a storage container, a public address or an interface that an
\* earlier ensure has left in place: ensuring the resource again is not a
\* second create call.
C12_EnsureCreatesOnce ==
    args.command = "create-pool" =>
        /\ cloud0.account => Count("storage account create") = 0
        /\ cloud0.vnet => Count("network vnet create") = 0
        /\ \A c \in cloud0.containers :
              ~IssuedArg("storage container create", c)
        /\ \A n \in cloud0.ips : ~Issued("network public-ip create", n)
        /\ \A n \in cloud0.nics : ~Issued("network nic create", n)

\* the last call the running command has issued
LastCall == log[Len(log)]

\* C13: every copy of vm_upload_dir comes right after the removal of the
\* destination directory on the same VM, and when the copy has succeeded
\* the destination holds the paths of the source directory and no other.
C13_UploadReplaces ==
    (Len(log) > 0 /\ LastCall.op = "scp") =>
        /\ Len(log) > 1
        /\ log[Len(log) - 1].op = "ssh"
        /\ log[Len(log) - 1].name = LastCall.name
        /\ log[Len(log) - 1].arg = remove_dir_script(LastCall.arg)
        /\ success =>
              Below(remote[LastCall.name].files, LastCall.arg)
                  = {LastCall.arg \o f : f \in SourceFiles \cup {<< >>}}

\* the names of the VMs in the running command's list
VmsNames == {vms[k].name : k \in DOMAIN vms}

\* the calls log[k], log[k+1], ... of deploy-task upload only when every VM
\* of the list is in `killed`, the VMs that a 'killall screen' was sent to
RECURSIVE C14_KillsFirst(_, _)
C14_KillsFirst(k, killed) ==
    IF k > Len(log) THEN TRUE
    ELSE /\ (\/ log[k].op = "scp"
             \/ (log[k].op = "ssh" /\ log[k].arg # kill_script)) =>
                killed = VmsNames
         /\ C14_KillsFirst(k + 1,
                IF log[k].op = "ssh" /\ log[k].arg = kill_script
                THEN killed \cup {log[k].name} ELSE killed)

\* C14: deploy-task issues no call of its upload (neither the removal of
\* the task directory nor the copy) to any VM before 'killall screen' has
\* been sent to every VM of the pool, and the upload goes to every VM.
C14_KillBeforeUpload ==
    args.command = "deploy-task" =>
        /\ C14_KillsFirst(1, {})
        /\ (pc = "done" /\ num_vms > 0) =>
              \A n \in VmsNames : Issued("scp", n)

C14_Witness ==
    /\ args.command = "deploy-task"
    /\ pc = "done"
    /\ Count("scp") = MaxVms
    /\ Cardinality(VmsNames) = MaxVms

\* C15: after its listing of the VMs, setup-pool issues for each VM of the
\* list in turn four calls: the removal of the setup directory, the copy of
\* the setup directory, chmod +x setup/run.sh, and the run of setup/run.sh,
\* which is under 'screen -d -m' exactly when --no-wait is set; a run that
\* ends normally has done so for every VM.
C15_SetupOrder ==
    args.command = "setup-pool" =>
        /\ \A k \in 2..Len(log) :
              LET step == (k - 2) % 4
                  run == <<<<"setup", "run.sh">>>>
              IN /\ (k - 2) \div 4 + 1 \in DOMAIN vms
                 /\ log[k].name = vms[(k - 2) \div 4 + 1].name
                 /\ step = 0 =>
                       /\ log[k].op = "ssh"
                       /\ log[k].arg = <<<<"rm">>, <<"-r">>, <<"setup">>>>
                 /\ step = 1 => log[k].op = "scp" /\ log[k].arg = <<"setup">>
                 /\ step = 2 =>
                       /\ log[k].op = "ssh"
                       /\ log[k].arg
                              = <<<<"chmod">>, <<"+x">>, <<"setup", "run.sh">>>>
                 /\ step = 3 =>
                       /\ log[k].op = "ssh"
                       /\ log[k].arg
                              = IF args.no_wait
                                THEN <<<<"screen">>, <<"-d">>, <<"-m">>>> \o run
                                ELSE run
        /\ (pc = "done" /\ num_vms # NotGiven) =>
              Len(log) = 1 + 4 * Len(vms)

C15_Witness ==
    /\ args.command = "setup-pool"
    /\ args.no_wait
    /\ pc = "done"
    /\ Len(vms) = MaxVms
    /\ \A n \in VmsNames : setup_script \in remote[n].screens

\* C16: after its listing of the VMs, start-task issues for each VM of the
\* list in turn chmod +x task/run.sh and then the run of task/run.sh under
\* 'screen -d -m', whatever the no-wait flag; a run that ends normally has
\* done so for every VM.
C16_StartTaskDetached ==
    args.command = "start-task" =>
        /\ \A k \in 2..Len(log) :
              /\ (k - 2) \div 2 + 1 \in DOMAIN vms
              /\ log[k].name = vms[(k - 2) \div 2 + 1].name
              /\ log[k].op = "ssh"
              /\ log[k].arg
                     = IF (k - 2) % 2 = 0
                       THEN <<<<"chmod">>, <<"+x">>, <<"task", "run.sh">>>>
                       ELSE <<<<"screen">>, <<"-d">>, <<"-m">>,
                              <<"task", "run.sh">>>>
        /\ (pc = "done" /\ num_vms # NotGiven) =>
              Len(log) = 1 + 2 * Len(vms)

C16_Witness ==
    /\ args.command = "start-task"
    /\ pc = "done"
    /\ Len(vms) = MaxVms
    /\ \A n \in VmsNames : task_script \in remote[n].screens

\* the VMs among the first n of the list whose observed power state is not
\* the given one
NotIn(state, n) ==
    {vms[k].name : k \in {j \in 1..n : vms[j].powerState # state}}

\* the VMs the running command has issued the call to
Called(op) == {log[k].name : k \in {j \in DOMAIN log : log[j].op = op}}

\* C17: while start-all goes through the VMs it has listed, the VMs it has
\* issued 'vm start' to are exactly the VMs gone through whose listed power
\* state is not 'VM running', each once; the same for stop-all with
\* 'vm deallocate' and 'VM deallocated'; when the pass is over every listed
\* VM has been gone through; start-all issues no deallocate call, stop-all
\* no start call; and unless a call has raised, the calls issued are as
\* many as the entries of the result list that are not None.
C17_PowerCallsExact ==
    /\ (args.command = "start-all" /\ pc \in {"sa_vm", "sa_refresh"}) =>
          /\ Called("vm start") = NotIn("VM running", i - 1)
          /\ Count("vm start") = Cardinality(NotIn("VM running", i - 1))
          /\ pc = "sa_refresh" /\ Len(vms) > 0 => i = Len(vms) + 1
    /\ (args.command = "stop-all" /\ pc \in {"sd_vm", "sd_refresh"}) =>
          /\ Called("vm deallocate") = NotIn("VM deallocated", i - 1)
          /\ Count("vm deallocate")
                 = Cardinality(NotIn("VM deallocated", i - 1))
          /\ pc = "sd_refresh" /\ Len(vms) > 0 => i = Len(vms) + 1
    /\ args.command = "start-all" =>
          /\ Count("vm deallocate") = 0
          /\ pc # "raised" =>
                Count("vm start") = Cardinality({k \in DOMAIN result :
                                                    result[k] # "None"})
    /\ args.command = "stop-all" =>
          /\ Count("vm start") = 0
          /\ pc # "raised" =>
                Count("vm deallocate")
                    = Cardinality({k \in DOMAIN result : result[k] # "None"})

C17_Witness ==
    /\ args.command = "start-all"
    /\ pc = "sa_refresh"
    /\ Len(vms) = MaxVms
    /\ \E k \in DOMAIN vms : vms[k].powerState = "VM running"
    /\ \E k \in DOMAIN vms : vms[k].powerState = "VM stopped"
    /\ Count("vm start") > 0

\* the datetime that a text 'YYYY-MM-DDTHH:MMZ' names, at second 0
C18_Parsed(text) ==
    <<DigitsValue(SubSeq(text, 1, 4)), DigitsValue(SubSeq(text, 6, 7)),
      DigitsValue(SubSeq(text, 9, 10)), DigitsValue(SubSeq(text, 12, 13)),
      DigitsValue(SubSeq(text, 15, 16)), 0>>

\* the seconds from the start of 2017 to a datetime
C18_Instant(dt) ==
    toordinal(dt) * 86400 + dt[4] * 3600 + dt[5] * 60 + dt[6]

\* C18: the expiry that pool_data_container_sas asks for is a text
\* 'YYYY-MM-DDTHH:MMZ' of a calendar date and a time of day, and names the
\* instant of the call plus --sas-expiry-days days, cut down to the minute;
\* with 0 days it is not later than the instant of the call.
C18_ExpiryIsIssuePlusDays ==
    sas.op = "generate-sas" =>
        LET expiry == C18_Parsed(sas.out)
        IN /\ Len(sas.out) = 17
           /\ \A k \in {1, 2, 3, 4, 6, 7, 9, 10, 12, 13, 15, 16} :
                 IsDigit(sas.out[k])
           /\ <<sas.out[5], sas.out[8], sas.out[11], sas.out[14], sas.out[17]>>
                  = <<"-", "-", "T", ":", "Z">>
           /\ expiry[2] \in 1..12
           /\ expiry[3] \in 1..DaysInMonth(expiry[1], expiry[2])
           /\ expiry[4] \in 0..23 /\ expiry[5] \in 0..59
           /\ C18_Instant(expiry)
                  = ((C18_Instant(sas.now) + sas.days * 86400) \div 60) * 60
           /\ sas.days = 0 => C18_Instant(expiry) <= C18_Instant(sas.now)

C18_Witness ==
    /\ sas.op = "generate-sas"
    /\ sas.days = DEFAULT_SAS_EXPIRY_DAYS
    /\ sas.now = <<2019, 12, 31, 23, 59, 59>>
    /\ sas.out = <<"2", "0", "2", "0", "-", "0", "1", "-", "1", "4", "T",
                   "2", "3", ":", "5", "9", "Z">>
    /\ sas.uploaded

\* C19: --no-wait is accepted for create-pool, setup-pool, start-all and
\* stop-all only: main never reports it as unsupported for one of the four,
\* and an invocation of any other command with the flag has ended in a
\* parser.error with no cloud call and no remote command issued and the
\* pool as it was.
C19_NoWaitOnlyWhereSupported ==
    args.command # "" /\ args.no_wait =>
        IF args.command \in {"create-pool", "setup-pool", "start-all",
                             "stop-all"}
        THEN /\ pc # "error: '--no-wait' not supported"
             /\ \/ pc \notin ParserErrors
                \/ args.command = "create-pool"
                      /\ (args.num_vms = NotGiven \/ args.vm_size = "None")
                \/ args.command = "setup-pool"
                      /\ args.pool_directory = "None"
        ELSE /\ pc \in ParserErrors
             /\ log = <<>>
             /\ cloud = cloud0

C19_Witness ==
    /\ args.command = "kill-task"
    /\ args.no_wait
    /\ pc = "error: '--no-wait' not supported"
    /\ Cardinality(cloud.vms) = MaxVms
    /\ \A n \in cloud.vms : remote[n].screens # {}

\* an argument that the command uses was not given
C20_Missing ==
    \/ args.command = "create-pool"
          /\ (args.num_vms = NotGiven \/ args.vm_size = "None")
    \/ args.command \in {"setup-pool", "deploy-task", "start-task",
                          "init-directory"}
          /\ args.pool_directory = "None"

\* C20: when a command fails for an argument that it uses and that was not
\* given (VM count or size for create-pool, pool directory for setup-pool,
\* deploy-task, start-task and init-directory), it has issued no cloud call
\* and no remote command, and the pool is as it was.
C20_MissingArgumentBeforeAnyCall ==
    C20_Missing /\ pc \in ParserErrors \cup {"TypeError"} =>
        /\ log = <<>>
        /\ cloud = cloud0

\* C21: a precondition failure ends the process with a non-zero exit
\* status: a required argument that is missing, and create-pool on a
\* resource group that does not exist without --force and --location.
C21_PreconditionFailureExitsNonZero ==
    pc = "exit" \/ pc \in ParserErrors => exit_status # CLEAN_EXIT

\* the ssh-keygen call that returned 0: the key files have been written
C22_Generated == [op |-> "ssh-keygen", name |-> <<>>, arg |-> "ok"]

\* C22: where the key files of the pool exist, gen_ssh_keys writes no key
\* file: the step of create-pool ends with no key pair generated and the
\* files as they were.
C22_KeygenKeepsExistingKeypair ==
    [][pc = "cp_gen_ssh_keys" /\ local.keys =>
           /\ log' # Append(log, C22_Generated)
           /\ local' = local]_vars

\* the name is the pool's name, a '-' and an index in digits
C23_Matches(name, pool) ==
    /\ Len(name) > Len(pool) + 1
    /\ SubSeq(name, 1, Len(pool) + 1) = pool \o <<"-">>
    /\ \A k \in (Len(pool) + 2)..Len(name) : IsDigit(name[k])

\* C23: number_from_name raises for every name that is not the pool's name
\* followed by '-' and an index, a name that begins with the name of
\* another pool included.
C23_MalformedNameRaises ==
    /\ nm.op = "number_from_name of a name"
    /\ ~C23_Matches(nm.name, nm.pool)
    => nm.out.raised # ""

\* the remote calls (ssh, scp) the running command has issued for the VM
C24_RemoteCalls(n) ==
    Cardinality({k \in DOMAIN log :
                    log[k].op \in {"ssh", "scp"} /\ log[k].name = n})

\* the remote calls of the per-VM steps of a command for one VM: removal,
\* copy, chmod and run for setup-pool; kill, removal and copy for
\* deploy-task; chmod and run for start-task; kill for kill-task
C24_PerVm ==
    CASE args.command = "setup-pool" -> 4
      [] args.command = "deploy-task" -> 3
      [] args.command = "start-task" -> 2
      [] args.command = "kill-task" -> 1

\* C24: no remote call of setup-pool, deploy-task, start-task or kill-task
\* raises out of the per-VM step, whether it fails or not: the command ends
\* with an exception only at a 'vm list' call, and when it has gone through
\* a list of VMs every VM of the list has been sent every remote call of
\* its per-VM step.
C24_RemoteFailureIsNotFatal ==
    args.command \in RemoteCommands =>
        /\ pc # "TypeError"
        /\ pc = "raised" => LastCall.op = "vm list"
        /\ pc = "done" =>
               \A k \in DOMAIN vms : C24_RemoteCalls(vms[k].name) = C24_PerVm

C24_Witness ==
    /\ args.command = "setup-pool"
    /\ pc = "done"
    /\ Len(vms) >= 2
    /\ setup_script \notin remote[vms[1].name].files
    /\ setup_script \in remote[vms[2].name].files
    /\ ~success

\* an earlier create-pool has stopped partway: a public address or an
\* interface is there without a VM that is created or being created
C25_Partial(c) ==
    c.ips # c.vms \cup c.pending \/ c.nics # c.vms \cup c.pending

\* C25: a create-pool that starts on what an earlier create-pool left when
\* it stopped partway, and that runs to its end, has issued no create call
\* for a public address or an interface that was there, and leaves a VM at
\* every index in 0..num_vms-1.
C25_RerunCompletesPool ==
    /\ args.command = "create-pool"
    /\ pc = "done"
    /\ C25_Partial(cloud0)
    => /\ \A n \in cloud0.ips : ~Issued("network public-ip create", n)
       /\ \A n \in cloud0.nics : ~Issued("network nic create", n)
       /\ \A n \in 0..(args.num_vms - 1) :
              VmName(n) \in cloud.vms \cup cloud.pending

\* C26: create-pool on a pool that has one or more VMs issues no call but
\* the look-ups of the resource group and of the VMs: no storage account,
\* key pair, container, blob, network, public address, interface or VM is
\* created, and the pool and the key files are as they were.
C26_PopulatedPoolCreatesNothing ==
    args.command = "create-pool" /\ cloud0.vms # {} =>
        /\ \A k \in DOMAIN log : log[k].op \in {"group show", "vm list"}
        /\ cloud = cloud0
        /\ local.keys /\ local.known_hosts = cloud0.vms

C26_Witness ==
    /\ args.command = "create-pool"
    /\ pc = "done"
    /\ cloud0.vms # {}
    /\ args.num_vms > Cardinality(cloud0.vms)
    /\ Len(log) = 2

\* C27: setup-pool, deploy-task, start-task and kill-task on a pool of 0
\* VMs issue no remote command and no copy: the command lists the VMs,
\* once, and is over.
C27_NoVmsNoRemoteCall ==
    args.command \in RemoteCommands /\ cloud0.vms = {} =>
        /\ \A k \in DOMAIN log : log[k].op \notin {"ssh", "scp"}
        /\ Len(log) <= 1
        /\ pc \in {dispatch(args.command), "done", "raised"}

C27_Witness ==
    /\ args.command = "deploy-task"
    /\ cloud0.vms = {}
    /\ pc = "done"
    /\ Len(log) = 1
    /\ LastCall.op = "vm list"

\* every create_vm of the pass has returned
C28_AllReturned == \A n \in DOMAIN pc : pc[n] = "returned"

\* C28: the resources create_vm reads, creates or deletes for one index
\* are none of those of another index, and when the create_vm calls of the
\* indices 0..num_vms-1 have all returned, their steps taken in any order,
\* the control plane holds what it holds after the calls made one after
\* the other.
C28_CreateVmParallelSafe ==
    /\ \A m, n \in DOMAIN pc :
          m # n =>
              create_vm_resources(name_from_number(m, resource_group))
                  \cap create_vm_resources(name_from_number(n, resource_group))
              = {}
    /\ C28_AllReturned =>
          cloud = create_vms_in_order(cloud0, 0, args.num_vms, args.no_wait)

C28_Witness ==
    /\ C28_AllReturned
    /\ args.num_vms = MaxVms
    /\ ~args.no_wait
    /\ cloud0.blobs # {}
    /\ cloud0.ips # {} /\ cloud0.ips # PoolVmNames
    /\ cloud.blobs # cloud0.blobs

\* the per-VM calls to the control plane that take --no-wait
C29_PerVmCalls == {"vm create", "vm start", "vm deallocate"}

\* C29: with --no-wait every "vm create", "vm start" and "vm deallocate" of
\* the command carries --no-wait, and after such a call the command issues
\* no call that names the VM of the call, the removal of the VM's entry
\* from the local known-hosts file apart.
C29_NoWaitAndNothingDependent ==
    args.no_wait =>
        \A j \in DOMAIN log :
            log[j].op \in C29_PerVmCalls =>
                /\ log[j].arg = "--no-wait"
                /\ \A k \in DOMAIN log :
                       k > j /\ log[k].op # "ssh-keygen -R" =>
                           log[k].name # log[j].name

\* C30: the token is asked for the data container with the permissions
\* read, list, write and delete and for HTTPS only; where the upload to
\* the secrets container has been issued, the token had been written
\* before to the file of the secrets directory whose name no other pool
\* has; and the blob uploaded is in the secrets container, under the name
\* of the file and with the content of the file.
C30_TokenWrittenThenUploaded ==
    /\ sas.op = "generate-sas" =>
          /\ sas.request.name = DEFAULT_DATA_CONTAINER_NAME
          /\ {sas.request.permissions[k] :
                  k \in DOMAIN sas.request.permissions}
                 = {"r", "l", "w", "d"}
          /\ sas.request.https_only
    /\ IssuedArg("storage blob upload", "vmsecrets") =>
          /\ sas.path # <<>>
          /\ sas.path[1] = DEFAULT_VM_SECRETS_DIRECTORY
          /\ sas.file = sas.out
          /\ \A pool \in PoolNames :
                 pool # resource_group =>
                     container_sas_filename(sas.request.name, pool)
                         # sas.path[2]
    /\ sas.uploaded =>
          sas.blob = [container |-> DEFAULT_VM_SECRETS_CONTAINER_NAME,
                      name |-> sas.path[2], content |-> sas.file]

C30_Witness ==
    /\ pc = "done"
    /\ sas.uploaded
    /\ "vmsecrets" \notin cloud0.containers
    /\ IssuedArg("storage container create", "vmsecrets")
    /\ sas.blob.content = sas.out
    /\ Len(sas.out) > 0

\* the calls of refresh-sas
C31_Calls ==
    {"storage account show-connection-string",
     "storage container generate-sas", "storage container exists",
     "storage container create", "storage blob upload"}

\* C31: no step of refresh-sas, in any number of runs, withdraws a token
\* that was issued before it, and every call refresh-sas issues is one of
\* show-connection-string, generate-sas, container exists, container
\* create and blob upload: none revokes or deletes a token.
C31_RefreshRevokesNothing ==
    [][/\ sas.issued \subseteq sas'.issued
       /\ \A k \in DOMAIN log' : log'[k].op \in C31_Calls]_vars

C31_Witness ==
    /\ runs = MaxSasRuns
    /\ pc = "done"
    /\ Cardinality(sas.issued) >= 2
    /\ sas.out \in sas.issued

\* the name of the token file of the data container
C38_FileName ==
    container_sas_filename(DEFAULT_DATA_CONTAINER_NAME, resource_group)

C33_Fetched ==
    args.command = "get-ssh"
        /\ pc \in {"gk_get_vms", "cp_remove_ssh_host", "cp_test_ssh", "done"}

\* C33 as stated: when download_ssh_keys has returned, both key files are
\* there, the mode of the private key file gives the owner read access and
\* nobody anything else, and the public key file can be read by everybody.
C33_PrivateKeyOwnerReadOnly ==
    C33_Fetched =>
        /\ local.keys
        /\ \A class \in 1..3, bit \in {4, 2, 1} :
               Permits(local.modes.private, class, bit)
                   <=> (class = 1 /\ bit = 4)
        /\ \A class \in 1..3 : Permits(local.modes.public, class, 4)

\* C33, amended: when download_ssh_keys has returned, both key files are
\* there, the private key file has the mode 600 (the owner reads and
\* writes, nobody else has any access) and the public key file the mode
\* 644 (the owner reads and writes, everybody reads).
C33_PrivateKeyOwnerOnly ==
    C33_Fetched =>
        /\ local.keys
        /\ \A class \in 1..3, bit \in {4, 2, 1} :
               Permits(local.modes.private, class, bit)
                   <=> (class = 1 /\ bit \in {4, 2})
        /\ \A class \in 1..3, bit \in {4, 2, 1} :
               Permits(local.modes.public, class, bit)
                   <=> (bit = 4 \/ (class = 1 /\ bit = 2))

C33_Witness ==
    /\ C33_Fetched
    /\ pc = "done"
    /\ Len(vms) = MaxVms
    /\ local.modes = [private |-> <<6, 0, 0>>, public |-> <<6, 4, 4>>]
    /\ \E j \in DOMAIN log : log[j].op = "chmod" /\ log[j].arg = "private"

\* C34: where create_vm probes for a stale OS disk, deletes it or creates
\* the VM, the blob name probed is the blob name deleted and the name of
\* the blob the VM's OS disk occupies; a probe that has gone on to the
\* create call without the delete has found the container without that
\* blob.
C34_ProbeDeleteOccupySameBlob ==
    pc \in {"cv_blob_exists", "cv_blob_delete", "cv_vm_create"} =>
        /\ blob_exists_name(create_vm_name) = blob_delete_name(create_vm_name)
        /\ blob_delete_name(create_vm_name) = os_disk_blob(create_vm_name)
        /\ pc = "cv_vm_create" =>
               os_disk_blob(create_vm_name) \notin cloud.blobs

\* C35: where vm_upload_dir has removed the directory and is to copy, the
\* removal and the copy address the same account on the same host and the
\* same path in it.
C35_RemoveAndCopySameDestination ==
    pc = "ud_scp" =>
        vm_run_script_destination(vms[i], dest_dir)
            = vm_upload_dir_destination(vms[i], dest_dir)

\* the VM, the interface, the public address and the OS-disk blob that
\* create_vm makes for the name
C36_Resources(c, n) ==
    (IF n \in c.vms THEN {<<"vm", n>>} ELSE {})
        \cup (IF n \in c.nics THEN {<<"nic", n>>} ELSE {})
        \cup (IF n \in c.ips THEN {<<"public-ip", n>>} ELSE {})
        \cup (IF os_disk_blob(n) \in c.blobs
               THEN {<<"blob", os_disk_blob(n)>>} ELSE {})

\* C36: in a delete-pool, of every VM that delete_vm has returned for,
\* neither the VM nor its interface, its public address or its OS-disk
\* blob remains.
C36_DeleteVmRemovesWhatCreateVmMade ==
    args.command = "delete-pool" =>
        \A k \in DOMAIN result : C36_Resources(cloud, result[k]) = {}

\* a delete-pool that follows a create-pool has deleted MaxVms VMs, each of
\* which had its four resources when the delete-pool began
C36_Witness ==
    /\ args.command = "delete-pool"
    /\ runs = MaxRuns
    /\ Len(result) = MaxVms
    /\ \A k \in DOMAIN result :
          Cardinality(C36_Resources(cloud0, result[k])) = 4

\* the call the step has just issued
C37_Issued(op, arg) ==
    /\ log' = Append(log, [op |-> op, name |-> vms[i].name, arg |-> arg])

\* C37: setup_vm goes from the copy of the setup directory to the chmod of
\* the setup script and from the chmod to the run of the script on the same
\* VM whatever the copy and the chmod returned, and the success it ends with
\* is that of the run alone: true only if the script was started detached or
\* was on the VM to run, whatever success held before.
C37_SetupVmAttemptsAllSteps ==
    [][args.command = "setup-pool" /\ log' # log =>
          /\ pc = "ud_scp" =>
                 /\ C37_Issued("scp", SETUP_DIRECTORY)
                 /\ pc' = "su_chmod" /\ i' = i /\ vms' = vms
          /\ pc = "su_chmod" =>
                 /\ C37_Issued("ssh", exec_script(setup_script))
                 /\ pc' = "su_run" /\ i' = i /\ vms' = vms
          /\ pc = "su_run" =>
                 /\ C37_Issued("ssh",
                               script_opt(<<setup_script>>, args.no_wait))
                 /\ pc' \in {"ud_rm", "done"}
                 /\ success' =>
                        \/ args.no_wait
                        \/ setup_script \in remote[vms[i].name].files]_vars

\* a setup-pool is over on MaxVms VMs, none of which has received the setup
\* directory; each has been sent the removal, the copy, the chmod and the
\* run, and the last run has reported success
C37_Witness ==
    /\ args.command = "setup-pool"
    /\ pc = "done"
    /\ Len(vms) = MaxVms
    /\ \A k \in DOMAIN vms :
          /\ SETUP_DIRECTORY \notin remote[vms[k].name].files
          /\ C24_RemoteCalls(vms[k].name) = 4
          /\ IssuedArg("ssh", exec_script(setup_script))
    /\ success

\* the step is the return of ensure_resource_provider_registered
C39_Returns == pc # "returned" /\ pc' = "returned"

\* the step issues 'provider register'
C39_Registers == log' # log /\ log'[Len(log')].op = "provider register"

\* C39: ensure_resource_provider_registered returns only in a state where
\* the registration state of the provider is "Registered", whatever the
\* state was at the call and however the control plane has changed it; it
\* issues 'provider register' only after it has read "Unregistered", and
\* not a second time.
C39_ReturnsOnlyWhenRegistered ==
    [][/\ C39_Returns => cloud'.registrationState = "Registered"
       /\ C39_Registers =>
              /\ result = <<"Unregistered">>
              /\ ~Issued("provider register", BATCH_NAMESPACE)]_vars

\* the register call is issued only after "Unregistered" was read, and once
C39_RegistersOnceWhenUnregistered ==
    [][C39_Registers =>
          /\ result = <<"Unregistered">>
          /\ ~Issued("provider register", BATCH_NAMESPACE)]_vars

\* ensure_resource_provider_registered has returned or raised
C40_Over == pc \in {"returned", "done", "raised"}

\* C40: where the process keeps running and the control plane completes
\* every registration and deregistration it has begun, every call of
\* ensure_resource_provider_registered ends: both polling loops are left
\* and the function returns, unless one of its calls raised.
C40_Terminates == (pc = "erp_if_registered") ~> C40_Over

\* the function has returned after the provider was found unregistering,
\* the register call was issued and the loops have waited twice or more
C40_Witness ==
    /\ pc = "returned"
    /\ cloud0.registrationState = "Unregistering"
    /\ Issued("provider register", BATCH_NAMESPACE)
    /\ i >= MaxPolls

====
